---- MODULE Spec2Model ----
(***************************************************************************)
(* A miner node of the proof-of-work blockchain: its chain, accepted-post  *)
(* index and pending pool, the /read, /write, /sync and /broadcast         *)
(* endpoints with their handlers, and the mining pass of the background    *)
(* routine (snapshot and proof-of-work under the shared lock, commit under *)
(* the exclusive lock, broadcast of the new chain).                        *)
(*                                                                         *)
(* SHA-256 is modelled as a collision-free function: a hash value keeps    *)
(* its preimage, and the hash of a block header also carries the leading   *)
(* bytes of the digest, on which the difficulty check works.  RSA is       *)
(* modelled as an ideal signature scheme: a signature names the key that   *)
(* made it and the hash it was made over.                                  *)
(***************************************************************************)
EXTENDS Integers, Sequences, FiniteSets, TLC

VARIABLES
    blockChain,   \* Miner.blockChain: the current chain, a sequence of blocks
    posts,        \* Miner.posts: treeset of the posts on the current chain
    pool,         \* Miner.pool: treeset of the posts waiting to be mined
    mining,       \* position of the background routine inside mine()
    req,          \* the HTTP request in flight to this miner, or NoReq
    resp,         \* the response of the handler to req, or NoResp
    lock,         \* Miner.lock: the holder of the RWMutex in each mode
    threads,      \* the goroutines inside the miner: position and locals
    nodes,        \* the miners of a network: the fields and the peer list of each
    tracker,      \* the tracker of the network: live ports and partition flag
    written,      \* the posts some miner of the network answered 200 on /write
    healed,       \* a partition in which the chains diverged has been lifted
    miners,       \* Tracker.miners: each live port with its expiration timer
    timers,       \* the expiration timers created for each port, in the order of creation
    renewing,     \* the ports whose miners still send heartbeats to the tracker
    answer,       \* the last response of the tracker
    routine,      \* position of Miner.routine in its loop
    quit,         \* Miner.quit: the value a sender offers on the channel, if any
    caller,       \* position of the goroutine that calls Miner.Shutdown
    heartbeatTimer, \* the heartbeat timer of Miner.routine
    syncTimer,    \* the sync timer of Miner.routine
    thePost,      \* the post of a user as it stands, signature included
    original,     \* the key and the body the signature of thePost was made with
    verdict,      \* the result of the last Post.Verify on thePost
    listing,      \* what the tracker answers the user on /get_miners
    selected,     \* what User.GetRandomMiners returned
    pass,         \* the loop of mine() over the nonces: position and locals
    peerList,     \* the last register of Miner.routine: the response and the peer list
    calls,        \* the /sync calls of the last gossip and how each ended
    locks,        \* the RWMutex of each of two miners that call each other
    routines,     \* Miner.routine of each of the two miners: its position
    serving,      \* the handler each of the two miners runs for a call of the other
    fetched,      \* what the miners asked by User.ReadPosts answered on /read
    readPosts     \* what User.ReadPosts returned

vars == <<blockChain, posts, pool, mining, req, resp, lock, threads,
          nodes, tracker, written, healed,
          miners, timers, renewing, answer,
          routine, quit, caller, heartbeatTimer, syncTimer,
          thePost, original, verdict, listing, selected,
          pass, peerList, calls, locks, routines, serving, fetched, readPosts>>

minerState == <<blockChain, posts, pool>>

\* the variables of the lock-level view of one miner
lockVars == <<lock, threads>>

\* the variables of the network of miners
netVars == <<nodes, tracker, written, healed>>

\* the variables of the tracker with its timers
trackerVars == <<miners, timers, renewing, answer>>

\* the variables of the background routine and its shutdown
quitVars == <<routine, quit, caller, heartbeatTimer, syncTimer>>

\* the variables of the user: a post and its verification, a choice of miners
userVars == <<thePost, original, verdict, listing, selected>>

\* the variables of the loop over the nonces
powVars == <<pass>>

\* the variables of the heartbeat and the gossip of the routine
gossipVars == <<peerList, calls>>

\* the variables of two miners that call each other
callVars == <<locks, routines, serving>>

\* the variables of User.ReadPosts
readVars == <<fetched, readPosts>>

moreVars == <<powVars, gossipVars, callVars, readVars>>

\* the variables beside the miners
sideVars == <<trackerVars, quitVars, userVars, moreVars>>

----------------------------------------------------------------------------
(* Bounds of the model *)

\* the miner stops mining when its chain has this many blocks
MaxChainLen == 2

\* longest chain a peer offers to /broadcast
MaxOffer == 2

\* largest number of posts in one /sync request
MaxBatch == 2

\* the registrations of one port at the tracker
MaxRegisters == 2

\* the ports in a response the user gets from the tracker
MaxListed == 4

\* the number of miners ReadPosts asks (the program asks at most RWCount)
MaxFetched == 2

\* the nonces a mining pass tries before it gives up (10000 in the program)
MiningIterations == 3

----------------------------------------------------------------------------
(* Program constants *)

PostsPerBlock == 2

\* difficulty: number of leading zero bits a block header's hash must have
TARGET == 9

StatusOK == 200

StatusBadRequest == 400

StatusNotFound == 404

----------------------------------------------------------------------------
(* Cryptography: crypto.go *)

\* Hash of an object that is not a block header: sha256 over its serialization.
Hash(object) == [lead |-> <<>>, of |-> object]

\* The first bytes of the sha256 digest of a header.  The digest of a real
\* header is unpredictable; here it is a fixed function of the nonce, so that
\* some nonces meet the target, some fail in a zero byte and some in the
\* remaining zero bits.
LeadBytes(header) ==
    << (header.Nonce % 2) * 37,
       ((header.Nonce \div 2) % 2) * 128 + ((header.Nonce \div 4) % 2) * 64 >>

\* Hash of a block header, as used for chain links and for the difficulty check.
HashHeader(header) == [lead |-> LeadBytes(header), of |-> header]

\* make([]byte, 32)
ZeroHash == [lead |-> <<0, 0>>, of |-> [zero |-> TRUE]]

\* a 32-byte value that is the hash of no header
BogusHash == [lead |-> <<1, 1>>, of |-> [zero |-> FALSE]]

RECURSIVE BigEndian(_)
\* big.Int.Bytes(): minimal big-endian representation
BigEndian(n) == IF n = 0 THEN <<>> ELSE BigEndian(n \div 256) \o <<n % 256>>

RECURSIVE FromBigEndian(_)
\* big.Int.SetBytes()
FromBigEndian(bytes) ==
    IF bytes = <<>> THEN 0
    ELSE FromBigEndian(SubSeq(bytes, 1, Len(bytes) - 1)) * 256 + bytes[Len(bytes)]

\* binary.LittleEndian.PutUint32
LittleEndian32(e) ==
    << e % 256, (e \div 256) % 256, (e \div 65536) % 256, (e \div 16777216) % 256 >>

PublicKeyToBytes(publicKey) ==
    LittleEndian32(publicKey.E) \o BigEndian(publicKey.N)

PublicKeyFromBytes(buffer) ==
    IF Len(buffer) <= 4
    THEN [err |-> TRUE]
    ELSE [err |-> FALSE,
          val |-> [E |-> buffer[1] + buffer[2] * 256 + buffer[3] * 65536
                         + buffer[4] * 16777216,
                   N |-> FromBigEndian(SubSeq(buffer, 5, Len(buffer)))]]

\* A private key is known by the public key it belongs to.
Sign(privateKey, object) == [by |-> privateKey.PublicKey, over |-> Hash(object)]

\* Verify that looks at the signer only
VerifySigner(publicKey, object, signature) == signature.by = publicKey

Verify(publicKey, object, signature) ==
    /\ signature.by = publicKey
    /\ signature.over = Hash(object)

RECURSIVE BytesCompare(_, _)
\* bytes.Compare: lexicographic order of byte strings
BytesCompare(a, b) ==
    IF a = <<>> /\ b = <<>> THEN 0
    ELSE IF a = <<>> THEN -1
    ELSE IF b = <<>> THEN 1
    ELSE IF a[1] < b[1] THEN -1
    ELSE IF a[1] > b[1] THEN 1
    ELSE BytesCompare(Tail(a), Tail(b))

----------------------------------------------------------------------------
(* Data model: posts and blocks *)

\* Post.Verify
PostVerify(post) == Verify(post.User, post.Body, post.Signature)

\* a difficulty check that looks at the whole bytes only
MeetsTargetBytesOnly(hash) == \A i \in 1..(TARGET \div 8) : hash.lead[i] = 0

\* the difficulty check of mine(), also applied by Block.Verify
MeetsTarget(hash) ==
    LET zeroBytes == TARGET \div 8
        zeroBits  == TARGET % 8
    IN  /\ \A i \in 1..zeroBytes : hash.lead[i] = 0
        /\ zeroBits > 0 => hash.lead[zeroBytes + 1] \div (2 ^ (8 - zeroBits)) = 0

\* Block.Verify
BlockVerify(block) ==
    /\ \A i \in 1..Len(block.Posts) : PostVerify(block.Posts[i])
    /\ block.Header.Summary = Hash(block.Posts)
    /\ MeetsTarget(HashHeader(block.Header))

\* Miner.cmp: posts are ordered by timestamp, then by the bytes of the key
cmp(post1, post2) ==
    IF post1.Body.Timestamp # post2.Body.Timestamp
    THEN IF post1.Body.Timestamp < post2.Body.Timestamp THEN -1 ELSE 1
    ELSE BytesCompare(PublicKeyToBytes(post1.User), PublicKeyToBytes(post2.User))

\* treeset.Set with comparator cmp
Contains(set, post) == \E q \in set : cmp(q, post) = 0

Remove(set, post) == {q \in set : cmp(q, post) # 0}

Add(set, post) == Remove(set, post) \cup {post}

RECURSIVE Iterate(_)
\* treeset iteration: the elements in ascending order of cmp
Iterate(set) ==
    IF set = {} THEN <<>>
    ELSE LET first == CHOOSE p \in set : \A q \in set : cmp(p, q) <= 0
         IN  <<first>> \o Iterate(set \ {first})

----------------------------------------------------------------------------
(* Wire encoding: the base64 forms of posts and blocks inside JSON bodies *)

\* base64.StdEncoding.EncodeToString
B64Encode(data) == <<"b64", data>>

\* base64.StdEncoding.DecodeString: fails on text that is not base64
B64Decode(text) ==
    IF text[1] = "b64" THEN [err |-> FALSE, val |-> text[2]] ELSE [err |-> TRUE]

\* Post.EncodeBase64
PostEncodeBase64(post) ==
    [User      |-> B64Encode(PublicKeyToBytes(post.User)),
     Signature |-> B64Encode(post.Signature),
     Content   |-> post.Body.Content,
     Timestamp |-> post.Body.Timestamp]

\* PostBase64.DecodeBase64
PostDecodeBase64(encoded) ==
    LET user == B64Decode(encoded.User)
        sig  == B64Decode(encoded.Signature)
        key  == PublicKeyFromBytes(user.val)
    IN  IF user.err \/ sig.err THEN [err |-> TRUE]
        ELSE IF key.err THEN [err |-> TRUE]
        ELSE [err |-> FALSE,
              val |-> [User      |-> key.val,
                       Body      |-> [Content   |-> encoded.Content,
                                      Timestamp |-> encoded.Timestamp],
                       Signature |-> sig.val]]

\* Block.EncodeBase64
BlockEncodeBase64(block) ==
    [Header |-> [PrevHash  |-> B64Encode(block.Header.PrevHash),
                 Summary   |-> B64Encode(block.Header.Summary),
                 Timestamp |-> block.Header.Timestamp,
                 Nonce     |-> block.Header.Nonce],
     Posts  |-> [i \in 1..Len(block.Posts) |-> PostEncodeBase64(block.Posts[i])]]

\* BlockBase64.DecodeBase64
BlockDecodeBase64(encoded) ==
    LET prev    == B64Decode(encoded.Header.PrevHash)
        summary == B64Decode(encoded.Header.Summary)
        decoded == [i \in 1..Len(encoded.Posts) |-> PostDecodeBase64(encoded.Posts[i])]
    IN  IF prev.err \/ summary.err \/ \E i \in 1..Len(decoded) : decoded[i].err
        THEN [err |-> TRUE]
        ELSE [err |-> FALSE,
              val |-> [Header |-> [PrevHash  |-> prev.val,
                                   Summary   |-> summary.val,
                                   Timestamp |-> encoded.Header.Timestamp,
                                   Nonce     |-> encoded.Header.Nonce],
                       Posts  |-> [i \in 1..Len(decoded) |-> decoded[i].val]]]

\* the chain of a BlockChainJson, as built by readHandler and mine
EncodeChain(chain) == [i \in 1..Len(chain) |-> BlockEncodeBase64(chain[i])]

\* a request body that is well-formed JSON of the expected shape
Json(value) == [json |-> TRUE, val |-> value]

\* a request body on which ctx.BindJSON fails
MalformedJson == [json |-> FALSE]

\* a string that is not base64
NotBase64 == <<"%">>

----------------------------------------------------------------------------
(* The users, posts and chains that reach the miner *)

\* two users; the key bytes of User1 sort before those of User2 although its
\* modulus is the larger number
User1 == [PublicKey |-> [E |-> 65537, N |-> 258]]

User2 == [PublicKey |-> [E |-> 65537, N |-> 5]]

\* a post as a user creates it in WritePost: body signed with the user's key
SignedPost(privateKey, content, timestamp) ==
    LET body == [Content |-> content, Timestamp |-> timestamp]
    IN  [User |-> privateKey.PublicKey, Body |-> body,
         Signature |-> Sign(privateKey, body)]

\* User1 signs two different contents with one timestamp; User2 signs one post
ValidPosts ==
    { SignedPost(User1, "a", 1), SignedPost(User1, "b", 1), SignedPost(User2, "a", 1) }

\* a post whose content was changed after signing
TamperedPost == [SignedPost(User2, "a", 1) EXCEPT !.Body.Content = "b"]

\* a post signed with a key other than the stated one
ForgedPost ==
    [SignedPost(User1, "a", 2) EXCEPT !.Signature =
                    Sign(User2, [Content |-> "a", Timestamp |-> 2])]

InvalidPosts == { TamperedPost, ForgedPost }

AllPosts == ValidPosts \cup InvalidPosts

SeqsUpTo(set, n) == UNION { [1..k -> set] : k \in 0..n }

\* the nonces rand.Uint32() may return
Nonces == {0, 1, 2}

\* the values time.Now().UnixNano() may return when a block is built
BlockTimes == {7}

\* the post lists of the blocks an honest miner may offer: at most
\* PostsPerBlock posts, in the order of the pool
ValidPostLists ==
    { l \in SeqsUpTo(ValidPosts, PostsPerBlock) :
        \A i, j \in 1..Len(l) : i < j => cmp(l[i], l[j]) < 0 }

\* the nonces that make a header hash meet the target
GoodNonces == { n \in Nonces : MeetsTarget(HashHeader([Nonce |-> n])) }

\* A chain is offered as a plan, one entry per block: its posts, its nonce,
\* whether its summary is the hash of its posts and what its previous-hash is
\* ("ok": the hash of the header before it, or zero for the first block).
HonestPlan(l) == [posts |-> l, nonce |-> CHOOSE n \in GoodNonces : TRUE,
                  summary |-> "ok", prev |-> "ok"]

PlanPosts(plan) == UNION { { plan[i].posts[j] : j \in 1..Len(plan[i].posts) } : i \in 1..Len(plan) }

\* plans of chains that are valid and in which no two posts compare equal
HonestPlans ==
    { [i \in 1..Len(c) |-> HonestPlan(c[i])] : c \in
        { c \in SeqsUpTo(ValidPostLists, MaxOffer) :
            \A i, j \in 1..Len(c) : i # j =>
                \A a \in 1..Len(c[i]), b \in 1..Len(c[j]) : cmp(c[i][a], c[j][b]) # 0 } }

\* the honest plans that hold no post of User1
PlainPlans == { c \in HonestPlans : PlanPosts(c) \subseteq {SignedPost(User2, "a", 1)} }

\* the honest plans that hold one post
SinglePostPlans == { c \in HonestPlans : Cardinality(PlanPosts(c)) = 1 }

\* plans of chains with one defect: in some block of a plain plan a
\* previous-hash, summary or nonce that is wrong or a post that does not
\* verify, or in the last block of a plan with one post a post that compares
\* equal to it
TamperedPlans ==
    UNION { UNION {
        { [c EXCEPT ![i].prev = IF i = 1 THEN "bogus" ELSE "zero"],
          [c EXCEPT ![i].summary = "bad"],
          [c EXCEPT ![i].nonce = CHOOSE n \in Nonces \ GoodNonces : TRUE],
          [c EXCEPT ![i].posts = <<TamperedPost>> \o @] }
        : i \in 1..Len(c) }
      : c \in PlainPlans }
    \cup UNION { { [c EXCEPT ![Len(c)].posts = @ \o <<d>>] :
                     d \in { v \in ValidPosts : Contains(PlanPosts(c), v) } }
      : c \in SinglePostPlans }

RECURSIVE BuildChain(_)
\* the chain a plan describes
BuildChain(plan) ==
    IF plan = <<>> THEN <<>>
    ELSE LET n     == Len(plan)
             front == BuildChain(SubSeq(plan, 1, n - 1))
             link  == IF n = 1 THEN ZeroHash ELSE HashHeader(front[n - 1].Header)
             block == [Header |-> [PrevHash  |-> CASE plan[n].prev = "ok"    -> link
                                                   [] plan[n].prev = "zero"  -> ZeroHash
                                                   [] plan[n].prev = "bogus" -> BogusHash,
                                   Summary   |-> IF plan[n].summary = "ok"
                                                 THEN Hash(plan[n].posts)
                                                 ELSE Hash(plan[n].posts \o plan[n].posts
                                                      \o <<CHOOSE p \in ValidPosts : TRUE>>),
                                   Timestamp |-> CHOOSE t \in BlockTimes : TRUE,
                                   Nonce     |-> plan[n].nonce],
                       Posts  |-> plan[n].posts]
         IN  Append(front, block)

\* the chains peers offer to /broadcast
OfferedChains == { BuildChain(c) : c \in HonestPlans \cup TamperedPlans }

----------------------------------------------------------------------------
(* The requests that reach the miner's HTTP server *)

NoReq == [op |-> "none"]

NoResp == [status |-> 0, body |-> <<>>]

ReadRequests == { [op |-> "read"] }

WriteRequests ==
    { [op |-> "write", body |-> Json(PostEncodeBase64(p))] : p \in AllPosts }
    \cup { [op |-> "write", body |-> MalformedJson],
           [op |-> "write", body |-> Json([PostEncodeBase64(SignedPost(User1, "a", 1))
                                             EXCEPT !.Signature = NotBase64])] }

\* the batches peers send to /sync: posts of all kinds in any order, and a
\* post sent twice
Batches ==
    { b \in SeqsUpTo(AllPosts, MaxBatch) : \A i, j \in 1..Len(b) : i # j => b[i] # b[j] }
    \cup { <<p, p>> : p \in ValidPosts }

SyncRequests ==
    { [op |-> "sync", body |-> Json([Posts |-> [i \in 1..Len(b) |-> PostEncodeBase64(b[i])]])] :
          b \in Batches }
    \cup { [op |-> "sync", body |-> MalformedJson],
           [op |-> "sync", body |-> Json([Posts |-> <<[PostEncodeBase64(SignedPost(User1, "a", 1))
                                             EXCEPT !.User = NotBase64]>>])] }

BroadcastRequests ==
    { [op |-> "broadcast", body |-> Json([Blockchain |-> EncodeChain(c)])] : c \in OfferedChains }
    \cup { [op |-> "broadcast", body |-> MalformedJson],
           [op |-> "broadcast", body |-> Json([Blockchain |->
                 <<[BlockEncodeBase64(BuildChain(<<HonestPlan(<<>>)>>)[1])
                        EXCEPT !.Header.PrevHash = NotBase64]>>])] }

Requests == ReadRequests \cup WriteRequests \cup SyncRequests \cup BroadcastRequests

----------------------------------------------------------------------------
(* Request handlers: what each does to the miner's state under the lock *)

\* the outcome of a handler that leaves the miner's state as it is
Ignore(status, body) ==
    [status |-> status, body |-> body,
     blockChain |-> blockChain, posts |-> posts, pool |-> pool]

\* readHandler that returns the last block only
readHandlerTip ==
    Ignore(StatusOK, EncodeChain(IF blockChain = <<>> THEN <<>>
                                 ELSE <<blockChain[Len(blockChain)]>>))

readHandler == Ignore(StatusOK, EncodeChain(blockChain))

\* writeHandler without the signature check
writeHandlerNoVerify(post) ==
    IF Contains(posts, post)
    THEN Ignore(StatusBadRequest, <<"duplicated post on the blockchain">>)
    ELSE IF Contains(pool, post)
         THEN Ignore(StatusBadRequest, <<"duplicated post in the post">>)
    ELSE [Ignore(StatusOK, <<>>) EXCEPT !.pool = Add(pool, post)]

\* writeHandler without the look-up in the index of the posts on the chain
writeHandlerNoIndex(post) ==
    IF ~PostVerify(post) THEN Ignore(StatusBadRequest, <<"invalid post">>)
    ELSE IF Contains(pool, post)
         THEN Ignore(StatusBadRequest, <<"duplicated post in the post">>)
    ELSE [Ignore(StatusOK, <<>>) EXCEPT !.pool = Add(pool, post)]

writeHandler(post) ==
    IF ~PostVerify(post) THEN Ignore(StatusBadRequest, <<"invalid post">>)
    ELSE IF Contains(posts, post)
         THEN Ignore(StatusBadRequest, <<"duplicated post on the blockchain">>)
    ELSE IF Contains(pool, post)
         THEN Ignore(StatusBadRequest, <<"duplicated post in the post">>)
    ELSE [Ignore(StatusOK, <<>>) EXCEPT !.pool = Add(pool, post)]

RECURSIVE AddUnknown(_, _, _)
\* the second loop of syncHandler: each post of the batch in turn is added to
\* the pool unless the index or the pool built so far contains it
AddUnknown(batch, index, set) ==
    IF batch = <<>> THEN set
    ELSE IF Contains(index, Head(batch)) \/ Contains(set, Head(batch))
         THEN AddUnknown(Tail(batch), index, set)
         ELSE AddUnknown(Tail(batch), index, Add(set, Head(batch)))

\* syncHandler without the first loop, the one that verifies the posts
syncHandlerNoVerify(batch) ==
    [Ignore(StatusOK, <<>>) EXCEPT !.pool = AddUnknown(batch, posts, pool)]

RECURSIVE ValidPrefix(_)
\* the posts of a batch before its first post that does not verify
ValidPrefix(batch) ==
    IF batch = <<>> \/ ~PostVerify(Head(batch)) THEN <<>>
    ELSE <<Head(batch)>> \o ValidPrefix(Tail(batch))

\* syncHandler with one loop: it verifies and adds post by post, and stops at
\* the first post that does not verify
syncHandlerPartial(batch) ==
    IF \E i \in 1..Len(batch) : ~PostVerify(batch[i])
    THEN [Ignore(StatusBadRequest, <<"posts are invalid">>)
             EXCEPT !.pool = AddUnknown(ValidPrefix(batch), posts, pool)]
    ELSE [Ignore(StatusOK, <<>>) EXCEPT !.pool = AddUnknown(batch, posts, pool)]

syncHandler(batch) ==
    IF \E i \in 1..Len(batch) : ~PostVerify(batch[i])
    THEN Ignore(StatusBadRequest, <<"posts are invalid">>)
    ELSE [Ignore(StatusOK, <<>>) EXCEPT !.pool = AddUnknown(batch, posts, pool)]

RECURSIVE ChainPosts(_)
\* the posts of a chain, block by block, in the order of the blocks
ChainPosts(chain) ==
    IF chain = <<>> THEN <<>> ELSE Head(chain).Posts \o ChainPosts(Tail(chain))

RECURSIVE CollectPosts(_, _)
\* the duplicate check of broadcastHandler: the posts are added to a fresh
\* treeset one by one; a post the set already contains ends the check
CollectPosts(list, set) ==
    IF list = <<>> THEN [dup |-> FALSE, set |-> set]
    ELSE IF Contains(set, Head(list)) THEN [dup |-> TRUE, set |-> set]
    ELSE CollectPosts(Tail(list), Add(set, Head(list)))

RECURSIVE FirstDifference(_, _, _)
\* the first position from i on at which the local chain and the new chain
\* have blocks with different header hashes; past the local chain if none
FirstDifference(i, local, newChain) ==
    IF i > Len(local) THEN i
    ELSE IF HashHeader(local[i].Header) # HashHeader(newChain[i].Header) THEN i
    ELSE FirstDifference(i + 1, local, newChain)

RECURSIVE ReturnAllToPool(_, _, _)
\* ReturnToPool without the look-up in the posts of the new chain
ReturnAllToPool(list, accepted, set) ==
    IF list = <<>> THEN set
    ELSE ReturnAllToPool(Tail(list), accepted, Add(set, Head(list)))

RECURSIVE ReturnToPool(_, _, _)
\* the posts of the discarded blocks go back to the pool unless the new chain
\* has them
ReturnToPool(list, accepted, set) ==
    IF list = <<>> THEN set
    ELSE IF Contains(accepted, Head(list))
         THEN ReturnToPool(Tail(list), accepted, set)
         ELSE ReturnToPool(Tail(list), accepted, Add(set, Head(list)))

\* the checks of broadcastHandler on a chain longer than the local one, without
\* the check of the links between the blocks
PassesChecksNoLink(newChain) ==
    /\ \A i \in 1..Len(newChain) : BlockVerify(newChain[i])
    /\ newChain[1].Header.PrevHash = ZeroHash
    /\ ~CollectPosts(ChainPosts(newChain), {}).dup

\* the checks of broadcastHandler on a chain longer than the local one: each
\* block verifies, the hashes form a chain that starts at zero, and no post
\* is met twice
PassesChecks(newChain) ==
    /\ \A i \in 1..Len(newChain) : BlockVerify(newChain[i])
    /\ newChain[1].Header.PrevHash = ZeroHash
    /\ \A i \in 2..Len(newChain) :
          newChain[i].Header.PrevHash = HashHeader(newChain[i - 1].Header)
    /\ ~CollectPosts(ChainPosts(newChain), {}).dup

\* the switch of broadcastHandler to a chain that passed the checks: the new
\* pool is the old pool without the posts of the new chain, plus the posts of
\* the discarded blocks that the new chain does not have
Adopt(newChain) ==
    LET accepted  == CollectPosts(ChainPosts(newChain), {}).set
        kept      == { p \in pool : ~Contains(accepted, p) }
        i         == FirstDifference(1, blockChain, newChain)
        discarded == ChainPosts(SubSeq(blockChain, i, Len(blockChain)))
    IN  [status     |-> StatusOK,
         body       |-> <<>>,
         blockChain |-> newChain,
         posts      |-> accepted,
         pool       |-> ReturnToPool(discarded, accepted, kept)]

\* broadcastHandler without the comparison of the lengths
broadcastHandlerAnyLength(newChain) ==
    IF newChain = <<>> THEN Ignore(StatusOK, <<>>)
    ELSE IF ~PassesChecks(newChain) THEN Ignore(StatusOK, <<>>)
    ELSE Adopt(newChain)

\* broadcastHandler that also takes a chain as long as the local one
broadcastHandlerTie(newChain) ==
    IF Len(newChain) < Len(blockChain) \/ newChain = <<>> THEN Ignore(StatusOK, <<>>)
    ELSE IF ~PassesChecks(newChain) THEN Ignore(StatusOK, <<>>)
    ELSE Adopt(newChain)

broadcastHandler(newChain) ==
    IF Len(newChain) <= Len(blockChain) THEN Ignore(StatusOK, <<>>)
    ELSE IF ~PassesChecks(newChain) THEN Ignore(StatusOK, <<>>)
    ELSE Adopt(newChain)

----------------------------------------------------------------------------
(* Endpoints: registerAPIs decodes the body and calls the handler *)

readEndpoint == readHandler

writeEndpoint(body) ==
    IF ~body.json THEN Ignore(StatusBadRequest, <<"post has invalid format">>)
    ELSE LET decoded == PostDecodeBase64(body.val)
         IN  IF decoded.err
             THEN Ignore(StatusBadRequest, <<"post has invalid base64 string">>)
             ELSE writeHandler(decoded.val)

syncEndpoint(body) ==
    IF ~body.json THEN Ignore(StatusBadRequest, <<"request has invalid format">>)
    ELSE LET decoded == [i \in 1..Len(body.val.Posts) |-> PostDecodeBase64(body.val.Posts[i])]
         IN  IF \E i \in 1..Len(decoded) : decoded[i].err
             THEN Ignore(StatusBadRequest, <<"post has invalid base64 string">>)
             ELSE syncHandler([i \in 1..Len(decoded) |-> decoded[i].val])

\* broadcastEndpoint that answers 200 to a body it cannot decode
broadcastEndpointLenient(body) ==
    IF ~body.json THEN Ignore(StatusOK, <<>>)
    ELSE LET decoded == [i \in 1..Len(body.val.Blockchain) |->
                             BlockDecodeBase64(body.val.Blockchain[i])]
         IN  IF \E i \in 1..Len(decoded) : decoded[i].err
             THEN Ignore(StatusOK, <<>>)
             ELSE broadcastHandler([i \in 1..Len(decoded) |-> decoded[i].val])

broadcastEndpoint(body) ==
    IF ~body.json THEN Ignore(StatusBadRequest, <<"request has invalid format">>)
    ELSE LET decoded == [i \in 1..Len(body.val.Blockchain) |->
                             BlockDecodeBase64(body.val.Blockchain[i])]
         IN  IF \E i \in 1..Len(decoded) : decoded[i].err
             THEN Ignore(StatusBadRequest, <<"block has invalid base64 string">>)
             ELSE broadcastHandler([i \in 1..Len(decoded) |-> decoded[i].val])

----------------------------------------------------------------------------
(* Actions *)

\* the goroutines that work on one miner: one per endpoint and the routine
Threads == {"read", "write", "sync", "broadcast", "mine"}

\* a goroutine outside its handler
Idle == [pc |-> "idle"]

\* the RWMutex with no holder
NoLock == [writer |-> "none", readers |-> {}]

\* the ports of the miners of the network, one odd and one even
Ports == {3001, 3002}

\* the fields of a miner after NewMiner, before its first registration
NewMiner == [blockChain |-> <<>>, posts |-> {}, pool |-> {}, peers |-> {}]

\* the tracker after NewTracker
NewTracker == [miners |-> {}, partitioned |-> FALSE]

\* the ports of the miners that register with the tracker
TrackerPorts == {3000, 3001}

\* no response of the tracker yet
NoAnswer == [op |-> "none"]

\* a timer that was not created yet
NoTimer == "none"

\* a channel on which no sender waits
NoOffer == "empty"

\* no post yet
NoPost == [made |-> FALSE]

\* two miners that have each other in their peer lists
Callers == {3001, 3002}

\* nothing asked or returned yet
Nothing == [known |-> FALSE]

Init ==
    /\ blockChain = <<>>
    /\ posts = {}
    /\ pool = {}
    /\ mining = [pc |-> "idle"]
    /\ req = NoReq
    /\ resp = NoResp
    /\ lock = NoLock
    /\ threads = [t \in Threads |-> Idle]
    /\ nodes = [p \in Ports |-> NewMiner]
    /\ tracker = NewTracker
    /\ written = {}
    /\ healed = FALSE
    /\ miners = <<>>
    /\ timers = [port \in TrackerPorts |-> <<>>]
    /\ renewing = TrackerPorts
    /\ answer = NoAnswer
    /\ routine = [pc |-> "off"]
    /\ quit = NoOffer
    /\ caller = [pc |-> "idle"]
    /\ heartbeatTimer = NoTimer
    /\ syncTimer = NoTimer
    /\ thePost = NoPost
    /\ original = NoPost
    /\ verdict = Nothing
    /\ listing = Nothing
    /\ selected = Nothing
    /\ pass = [pc |-> "idle"]
    /\ peerList = [heard |-> Nothing, peers |-> <<>>, retry |-> FALSE]
    /\ calls = {}
    /\ locks = [m \in Callers |-> NoLock]
    /\ routines = [m \in Callers |-> [pc |-> "select"]]
    /\ serving = [m \in Callers |-> [pc |-> "idle"]]
    /\ fetched = Nothing
    /\ readPosts = Nothing

\* A request reaches the server and its handler runs to completion under the
\* lock; request and response stay visible until the client has the response.
\* The order in which concurrent handlers get the lock is arbitrary, so
\* requests are served one after the other, in any order.
Served(request, outcome) ==
    /\ req' = request
    /\ resp' = [status |-> outcome.status, body |-> outcome.body]
    /\ blockChain' = outcome.blockChain
    /\ posts' = outcome.posts
    /\ pool' = outcome.pool
    /\ UNCHANGED <<mining, lockVars, netVars, sideVars>>

Read == req.op = "none" /\ \E r \in ReadRequests : Served(r, readEndpoint)

Write == req.op = "none" /\ \E r \in WriteRequests : Served(r, writeEndpoint(r.body))

Sync == req.op = "none" /\ \E r \in SyncRequests : Served(r, syncEndpoint(r.body))

Broadcast == req.op = "none" /\ \E r \in BroadcastRequests : Served(r, broadcastEndpoint(r.body))

\* the client has received the response
Reply ==
    /\ req.op # "none"
    /\ req' = NoReq
    /\ resp' = NoResp
    /\ UNCHANGED <<blockChain, posts, pool, mining, lockVars, netVars, sideVars>>

----------------------------------------------------------------------------
(* The mining pass of the background routine: mine() *)

Min(a, b) == IF a < b THEN a ELSE b

\* the peer list the routine hands to mine(): the ports its last register
\* returned, without the miner's own
Peers == {3002, 3003}

\* a candidate that takes every post of the pool
CandidateWholePool(timestamp, nonce) ==
    LET chosen == Iterate(pool)
    IN  [Header |-> [PrevHash  |-> IF Len(blockChain) > 0
                                   THEN HashHeader(blockChain[Len(blockChain)].Header)
                                   ELSE ZeroHash,
                     Summary   |-> Hash(chosen),
                     Timestamp |-> timestamp,
                     Nonce     |-> nonce],
         Posts  |-> chosen]

\* the block mine() fills in under the shared lock: the first posts of the
\* pool in its order, linked to the current tip
Candidate(timestamp, nonce) ==
    LET chosen == SubSeq(Iterate(pool), 1, Min(PostsPerBlock, Cardinality(pool)))
    IN  [Header |-> [PrevHash  |-> IF Len(blockChain) > 0
                                   THEN HashHeader(blockChain[Len(blockChain)].Header)
                                   ELSE ZeroHash,
                     Summary   |-> Hash(chosen),
                     Timestamp |-> timestamp,
                     Nonce     |-> nonce],
         Posts  |-> chosen]

\* MoveToIndex that adds nothing
MoveNothingToIndex(list, index) == index

RECURSIVE MoveToIndex(_, _)
\* the posts of the mined block are added to the index ...
MoveToIndex(list, index) ==
    IF list = <<>> THEN index ELSE MoveToIndex(Tail(list), Add(index, Head(list)))

RECURSIVE TakeFromPool(_, _)
\* ... and removed from the pool
TakeFromPool(list, set) ==
    IF list = <<>> THEN set ELSE TakeFromPool(Tail(list), Remove(set, Head(list)))

\* Commit without the comparison of the chain length with the noted one
CommitStale(length, block) ==
    [done |-> TRUE,
     blockChain |-> Append(blockChain, block),
     posts |-> MoveToIndex(block.Posts, posts),
     pool |-> TakeFromPool(block.Posts, pool)]

\* Commit that takes the posts of a dropped block out of the pool
CommitDropsPosts(length, block) ==
    IF Len(blockChain) # length
    THEN [done |-> FALSE, blockChain |-> blockChain, posts |-> posts,
          pool |-> TakeFromPool(block.Posts, pool)]
    ELSE [done |-> TRUE,
          blockChain |-> Append(blockChain, block),
          posts |-> MoveToIndex(block.Posts, posts),
          pool |-> TakeFromPool(block.Posts, pool)]

\* the commit of a mined block under the exclusive lock
Commit(length, block) ==
    IF Len(blockChain) # length
    THEN [done |-> FALSE, blockChain |-> blockChain, posts |-> posts, pool |-> pool]
    ELSE [done |-> TRUE,
          blockChain |-> Append(blockChain, block),
          posts |-> MoveToIndex(block.Posts, posts),
          pool |-> TakeFromPool(block.Posts, pool)]

\* mine() up to the release of the shared lock: the chain length is noted, the
\* candidate is built and nonces are tried; nonce is the last one tried.  The
\* pass ends here when no nonce tried met the target.
MineAttempt ==
    /\ mining.pc = "idle"
    /\ req.op = "none"
    /\ Len(blockChain) < MaxChainLen
    /\ \E timestamp \in BlockTimes, nonce \in Nonces :
          LET block == Candidate(timestamp, nonce)
          IN  mining' = IF MeetsTarget(HashHeader(block.Header))
                        THEN [pc |-> "commit", length |-> Len(blockChain), block |-> block]
                        ELSE mining
    /\ UNCHANGED <<blockChain, posts, pool, req, resp, lockVars, netVars, sideVars>>

\* the calls of a mine() that skips a peer
BroadcastToSome(peers, request) ==
    { [to |-> peer, body |-> Json([Blockchain |-> request])] :
          peer \in peers \ {CHOOSE q \in peers : TRUE} }

\* the calls of /broadcast that mine() starts after the commit: one to every
\* peer, each with the encoded chain
BroadcastTo(peers, request) ==
    { [to |-> peer, body |-> Json([Blockchain |-> request])] : peer \in peers }

\* mine() under the exclusive lock and up to wg.Wait(): the block is dropped
\* if the chain length changed, else appended, the new chain encoded and a
\* call started for every peer
MineCommit ==
    /\ mining.pc = "commit"
    /\ req.op = "none"
    /\ LET outcome == Commit(mining.length, mining.block)
           request == EncodeChain(outcome.blockChain)
       IN  /\ blockChain' = outcome.blockChain
           /\ posts' = outcome.posts
           /\ pool' = outcome.pool
           /\ mining' = IF outcome.done
                        THEN [pc |-> "broadcast", request |-> request,
                              sent |-> BroadcastTo(Peers, request)]
                        ELSE [pc |-> "idle"]
    /\ UNCHANGED <<req, resp, lockVars, netVars, sideVars>>

\* wg.Wait(): every call has ended and mine() returns
MineBroadcast ==
    /\ mining.pc = "broadcast"
    /\ req.op = "none"
    /\ mining' = [pc |-> "idle"]
    /\ UNCHANGED <<blockChain, posts, pool, req, resp, lockVars, netVars, sideVars>>

Next ==
    \/ Read
    \/ Write
    \/ Sync
    \/ Broadcast
    \/ Reply
    \/ MineAttempt
    \/ MineCommit
    \/ MineBroadcast

Spec == Init /\ [][Next]_vars

----------------------------------------------------------------------------
(* The miner at the level of its lock: every handler and the mining pass    *)
(* as goroutines that take Miner.lock, read and assign the fields one       *)
(* statement at a time, and release the lock.  A goroutine that takes the   *)
(* lock notes in "expected" what the handler as a whole makes of the state  *)
(* it finds.                                                                *)

\* the batches sent to /sync while other goroutines run: valid posts in any
\* order, and one batch with a post that does not verify
LockBatches == SeqsUpTo(ValidPosts, MaxBatch) \cup { <<TamperedPost>> }

\* the chains offered to /broadcast while other goroutines run: the honest
\* ones, and the empty-block chains with a wrong summary in the last block
LockChains ==
    { BuildChain(c) : c \in HonestPlans }
    \cup { BuildChain([c EXCEPT ![Len(c)].summary = "bad"]) :
              c \in { h \in HonestPlans : h # <<>> /\ PlanPosts(h) = {} } }

\* sync.RWMutex.RLock: waits while a goroutine holds the lock exclusively
CanRLock == lock.writer = "none"

\* Lock that waits for a holder of the exclusive lock only
CanLockBesideReaders == lock.writer = "none"

\* sync.RWMutex.Lock: waits while any goroutine holds the lock
CanLock == lock.writer = "none" /\ lock.readers = {}

\* the goroutine moves on
Step(t, record) == threads' = [threads EXCEPT ![t] = record]

\* the variables no goroutine of the lock-level view touches
LockFrame == UNCHANGED <<mining, req, resp, netVars, sideVars>>

\* a handler that returns status and body
Returns(t, status, body) ==
    [pc |-> "done", expected |-> threads[t].expected, status |-> status, body |-> body]

\* readHandler: m.lock.RLock()
ReadRLock ==
    /\ threads["read"].pc = "idle"
    /\ CanRLock
    /\ lock' = [lock EXCEPT !.readers = @ \cup {"read"}]
    /\ Step("read", [pc |-> "locked", expected |-> readHandler])
    /\ UNCHANGED minerState
    /\ LockFrame

\* readHandler: the blocks of m.blockChain are encoded into the response
ReadCopy ==
    /\ threads["read"].pc = "locked"
    /\ Step("read", Returns("read", StatusOK, EncodeChain(blockChain)))
    /\ UNCHANGED <<minerState, lock>>
    /\ LockFrame

\* writeHandler: post.Verify(), which reads no field of the miner and
\* returns 400 without the lock when it fails, and m.lock.Lock()
WriteLock ==
    /\ threads["write"].pc = "idle"
    /\ CanLock
    /\ lock' = [lock EXCEPT !.writer = "write"]
    /\ \E post \in AllPosts :
          /\ PostVerify(post)
          /\ Step("write", [pc |-> "locked", post |-> post,
                            expected |-> writeHandler(post)])
    /\ UNCHANGED minerState
    /\ LockFrame

\* writeHandler under the lock: the two look-ups and m.pool.Add
WriteBody ==
    /\ threads["write"].pc = "locked"
    /\ LET post == threads["write"].post
       IN  IF Contains(posts, post)
           THEN /\ Step("write", Returns("write", StatusBadRequest,
                                         <<"duplicated post on the blockchain">>))
                /\ UNCHANGED pool
           ELSE IF Contains(pool, post)
           THEN /\ Step("write", Returns("write", StatusBadRequest,
                                         <<"duplicated post in the post">>))
                /\ UNCHANGED pool
           ELSE /\ Step("write", Returns("write", StatusOK, <<>>))
                /\ pool' = Add(pool, post)
    /\ UNCHANGED <<blockChain, posts, lock>>
    /\ LockFrame

\* syncHandler: m.lock.Lock()
SyncLock ==
    /\ threads["sync"].pc = "idle"
    /\ CanLock
    /\ lock' = [lock EXCEPT !.writer = "sync"]
    /\ \E batch \in LockBatches :
          Step("sync", [pc |-> "locked", batch |-> batch, expected |-> syncHandler(batch)])
    /\ UNCHANGED minerState
    /\ LockFrame

\* syncHandler under the lock: the loop that verifies and the loop that adds
SyncBody ==
    /\ threads["sync"].pc = "locked"
    /\ LET batch == threads["sync"].batch
       IN  IF \E i \in 1..Len(batch) : ~PostVerify(batch[i])
           THEN /\ Step("sync", Returns("sync", StatusBadRequest, <<"posts are invalid">>))
                /\ UNCHANGED pool
           ELSE /\ Step("sync", Returns("sync", StatusOK, <<>>))
                /\ pool' = AddUnknown(batch, posts, pool)
    /\ UNCHANGED <<blockChain, posts, lock>>
    /\ LockFrame

\* broadcastHandler: m.lock.Lock()
BroadcastLock ==
    /\ threads["broadcast"].pc = "idle"
    /\ CanLock
    /\ lock' = [lock EXCEPT !.writer = "broadcast"]
    /\ \E newChain \in LockChains :
          Step("broadcast", [pc |-> "locked", newChain |-> newChain,
                             expected |-> broadcastHandler(newChain)])
    /\ UNCHANGED minerState
    /\ LockFrame

\* broadcastHandler under the lock, up to "update everything": the checks,
\* and the new index and the new pool in local variables
BroadcastCheck ==
    /\ threads["broadcast"].pc = "locked"
    /\ LET newChain  == threads["broadcast"].newChain
           collected == CollectPosts(ChainPosts(newChain), {}).set
           kept      == { p \in pool : ~Contains(collected, p) }
           i         == FirstDifference(1, blockChain, newChain)
           discarded == ChainPosts(SubSeq(blockChain, i, Len(blockChain)))
       IN  IF Len(newChain) <= Len(blockChain) \/ ~PassesChecks(newChain)
           THEN Step("broadcast", Returns("broadcast", StatusOK, <<>>))
           ELSE Step("broadcast", [pc |-> "assignChain",
                                   expected |-> threads["broadcast"].expected,
                                   newChain |-> newChain,
                                   posts |-> collected,
                                   pool |-> ReturnToPool(discarded, collected, kept)])
    /\ UNCHANGED <<minerState, lock>>
    /\ LockFrame

\* m.blockChain = newChain
BroadcastAssignChain ==
    /\ threads["broadcast"].pc = "assignChain"
    /\ blockChain' = threads["broadcast"].newChain
    /\ Step("broadcast", [threads["broadcast"] EXCEPT !.pc = "assignPosts"])
    /\ UNCHANGED <<posts, pool, lock>>
    /\ LockFrame

\* m.posts = posts
BroadcastAssignPosts ==
    /\ threads["broadcast"].pc = "assignPosts"
    /\ posts' = threads["broadcast"].posts
    /\ Step("broadcast", [threads["broadcast"] EXCEPT !.pc = "assignPool"])
    /\ UNCHANGED <<blockChain, pool, lock>>
    /\ LockFrame

\* m.pool = pool, and the return
BroadcastAssignPool ==
    /\ threads["broadcast"].pc = "assignPool"
    /\ pool' = threads["broadcast"].pool
    /\ Step("broadcast", Returns("broadcast", StatusOK, <<>>))
    /\ UNCHANGED <<blockChain, posts, lock>>
    /\ LockFrame

\* the deferred m.lock.RUnlock() or m.lock.Unlock() of a handler
Return ==
    /\ \E t \in Threads \ {"mine"} :
          /\ threads[t].pc = "done"
          /\ lock' = [writer  |-> IF lock.writer = t THEN "none" ELSE lock.writer,
                      readers |-> lock.readers \ {t}]
          /\ Step(t, Idle)
    /\ UNCHANGED minerState
    /\ LockFrame

\* mine: m.lock.RLock(); the timestamp and the nonce the pass will end with
\* are fixed here
MineRLock ==
    /\ threads["mine"].pc = "idle"
    /\ Len(blockChain) < MaxChainLen
    /\ CanRLock
    /\ lock' = [lock EXCEPT !.readers = @ \cup {"mine"}]
    /\ \E timestamp \in BlockTimes, nonce \in Nonces :
          Step("mine", [pc |-> "length", timestamp |-> timestamp, nonce |-> nonce,
                        expected |-> [length |-> Len(blockChain),
                                      block  |-> Candidate(timestamp, nonce)]])
    /\ UNCHANGED minerState
    /\ LockFrame

\* length := len(m.blockChain)
MineLength ==
    /\ threads["mine"].pc = "length"
    /\ Step("mine", [pc |-> "posts", timestamp |-> threads["mine"].timestamp,
                     nonce |-> threads["mine"].nonce,
                     expected |-> threads["mine"].expected,
                     length |-> Len(blockChain)])
    /\ UNCHANGED <<minerState, lock>>
    /\ LockFrame

\* the loop over m.pool.Iterator() that fills the posts of the block
MinePosts ==
    /\ threads["mine"].pc = "posts"
    /\ Step("mine", [pc |-> "tip", timestamp |-> threads["mine"].timestamp,
                     nonce |-> threads["mine"].nonce,
                     expected |-> threads["mine"].expected,
                     length |-> threads["mine"].length,
                     posts |-> SubSeq(Iterate(pool), 1,
                                      Min(PostsPerBlock, Cardinality(pool)))])
    /\ UNCHANGED <<minerState, lock>>
    /\ LockFrame

\* the block is built and linked to the tip of m.blockChain, and the nonces
\* are tried
MineTip ==
    /\ threads["mine"].pc = "tip"
    /\ LET th == threads["mine"]
       IN  Step("mine", [pc |-> "snapped", expected |-> th.expected,
                         length |-> th.length,
                         block |-> [Header |-> [PrevHash  |->
                                                  IF Len(blockChain) > 0
                                                  THEN HashHeader(blockChain[Len(blockChain)].Header)
                                                  ELSE ZeroHash,
                                                Summary   |-> Hash(th.posts),
                                                Timestamp |-> th.timestamp,
                                                Nonce     |-> th.nonce],
                                    Posts  |-> th.posts]])
    /\ UNCHANGED <<minerState, lock>>
    /\ LockFrame

\* m.lock.RUnlock(); the pass ends here without success
MineRUnlock ==
    /\ threads["mine"].pc = "snapped"
    /\ lock' = [lock EXCEPT !.readers = @ \ {"mine"}]
    /\ LET th == threads["mine"]
       IN  IF MeetsTarget(HashHeader(th.block.Header))
           THEN Step("mine", [pc |-> "mined", length |-> th.length, block |-> th.block])
           ELSE Step("mine", Idle)
    /\ UNCHANGED minerState
    /\ LockFrame

\* mine: m.lock.Lock()
MineLock ==
    /\ threads["mine"].pc = "mined"
    /\ CanLock
    /\ lock' = [lock EXCEPT !.writer = "mine"]
    /\ LET th == threads["mine"]
       IN  Step("mine", [pc |-> "check", length |-> th.length, block |-> th.block,
                         expected |-> Commit(th.length, th.block)])
    /\ UNCHANGED minerState
    /\ LockFrame

\* the comparison of the lengths and m.blockChain = append(m.blockChain, block)
MineCheck ==
    /\ threads["mine"].pc = "check"
    /\ LET th == threads["mine"]
       IN  IF Len(blockChain) # th.length
           THEN /\ Step("mine", [pc |-> "committed", expected |-> th.expected,
                                 success |-> FALSE])
                /\ UNCHANGED blockChain
           ELSE /\ Step("mine", [th EXCEPT !.pc = "move"])
                /\ blockChain' = Append(blockChain, th.block)
    /\ UNCHANGED <<posts, pool, lock>>
    /\ LockFrame

\* the loop of m.posts.Add(post) and m.pool.Remove(post), and the request
MineMove ==
    /\ threads["mine"].pc = "move"
    /\ LET th == threads["mine"]
       IN  /\ posts' = MoveToIndex(th.block.Posts, posts)
           /\ pool' = TakeFromPool(th.block.Posts, pool)
           /\ Step("mine", [pc |-> "committed", expected |-> th.expected,
                            success |-> TRUE])
    /\ UNCHANGED <<blockChain, lock>>
    /\ LockFrame

\* m.lock.Unlock() of mine
MineUnlock ==
    /\ threads["mine"].pc = "committed"
    /\ lock' = [lock EXCEPT !.writer = "none"]
    /\ Step("mine", Idle)
    /\ UNCHANGED minerState
    /\ LockFrame

NextLock ==
    \/ ReadRLock
    \/ ReadCopy
    \/ WriteLock
    \/ WriteBody
    \/ SyncLock
    \/ SyncBody
    \/ BroadcastLock
    \/ BroadcastCheck
    \/ BroadcastAssignChain
    \/ BroadcastAssignPosts
    \/ BroadcastAssignPool
    \/ Return
    \/ MineRLock
    \/ MineLength
    \/ MinePosts
    \/ MineTip
    \/ MineRUnlock
    \/ MineLock
    \/ MineCheck
    \/ MineMove
    \/ MineUnlock

SpecLock == Init /\ [][NextLock]_vars

----------------------------------------------------------------------------
(* The network: the miners of Ports, each with its fields and the peer list *)
(* of its last registration, and the tracker of the partition test.  A      *)
(* request is handled by the miner it reaches as by the handlers above, on  *)
(* that miner's fields.                                                     *)

\* the outcome of a handler that leaves the miner n as it is
IgnoreAt(n, status) == [status |-> status, node |-> n]

\* Miner.writeHandler on the fields of miner n
writeAt(n, post) ==
    IF ~PostVerify(post) THEN IgnoreAt(n, StatusBadRequest)
    ELSE IF Contains(n.posts, post) THEN IgnoreAt(n, StatusBadRequest)
    ELSE IF Contains(n.pool, post) THEN IgnoreAt(n, StatusBadRequest)
    ELSE [status |-> StatusOK, node |-> [n EXCEPT !.pool = Add(n.pool, post)]]

\* Miner.syncHandler on the fields of miner n
syncAt(n, batch) ==
    IF \E i \in 1..Len(batch) : ~PostVerify(batch[i])
    THEN IgnoreAt(n, StatusBadRequest)
    ELSE [status |-> StatusOK,
          node |-> [n EXCEPT !.pool = AddUnknown(batch, n.posts, n.pool)]]

\* Miner.broadcastHandler on the fields of miner n
broadcastAt(n, newChain) ==
    IF Len(newChain) <= Len(n.blockChain) THEN IgnoreAt(n, StatusOK)
    ELSE IF ~PassesChecks(newChain) THEN IgnoreAt(n, StatusOK)
    ELSE LET collected == CollectPosts(ChainPosts(newChain), {}).set
             kept      == { p \in n.pool : ~Contains(collected, p) }
             i         == FirstDifference(1, n.blockChain, newChain)
             discarded == ChainPosts(SubSeq(n.blockChain, i, Len(n.blockChain)))
         IN  [status |-> StatusOK,
              node |-> [n EXCEPT !.blockChain = newChain,
                                 !.posts = collected,
                                 !.pool = ReturnToPool(discarded, collected, kept)]]

\* Miner.mine on the fields of miner n, from the snapshot to the commit, when
\* no request is handled in between: the miner as it is when the nonce fails
mineAt(n, timestamp, nonce) ==
    LET chosen == SubSeq(Iterate(n.pool), 1, Min(PostsPerBlock, Cardinality(n.pool)))
        block  == [Header |-> [PrevHash  |-> IF Len(n.blockChain) > 0
                                             THEN HashHeader(n.blockChain[Len(n.blockChain)].Header)
                                             ELSE ZeroHash,
                               Summary   |-> Hash(chosen),
                               Timestamp |-> timestamp,
                               Nonce     |-> nonce],
                   Posts  |-> chosen]
    IN  IF ~MeetsTarget(HashHeader(block.Header)) THEN n
        ELSE [n EXCEPT !.blockChain = Append(n.blockChain, block),
                       !.posts = MoveToIndex(chosen, n.posts),
                       !.pool = TakeFromPool(chosen, n.pool)]

\* the variables of the single miner, which the network leaves alone
NetFrame == UNCHANGED <<blockChain, posts, pool, mining, req, resp, lockVars, sideVars>>

\* Miner.register and PartitionTracker.registerHandler: the port is entered
\* and the live ports come back, those of the caller's parity only while the
\* network is partitioned; the miner keeps them without its own port
NetRegister ==
    /\ \E port \in Ports :
          LET live     == tracker.miners \cup {port}
              response == IF tracker.partitioned
                          THEN { q \in live : q % 2 = port % 2 }
                          ELSE live
          IN  /\ tracker' = [tracker EXCEPT !.miners = live]
              /\ nodes' = [nodes EXCEPT ![port].peers = response \ {port}]
    /\ UNCHANGED <<written, healed>>
    /\ NetFrame

\* PartitionTracker.Partition, called by the test with the other value
NetPartition ==
    /\ tracker' = [tracker EXCEPT !.partitioned = ~@]
    /\ healed' = ( \/ healed
                   \/ /\ tracker.partitioned
                      /\ \E p, q \in Ports : nodes[p].blockChain # nodes[q].blockChain )
    /\ UNCHANGED <<nodes, written>>
    /\ NetFrame

\* a user writes a post to a miner
NetWrite ==
    /\ \E port \in Ports, post \in ValidPosts :
          LET outcome == writeAt(nodes[port], post)
          IN  /\ nodes' = [nodes EXCEPT ![port] = outcome.node]
              /\ written' = IF outcome.status = StatusOK
                            THEN written \cup {post} ELSE written
    /\ UNCHANGED <<tracker, healed>>
    /\ NetFrame

\* Miner.routine on the sync timer, one peer: the pool is sent to /sync
NetSync ==
    /\ \E port \in Ports :
          /\ nodes[port].pool # {}
          /\ \E peer \in nodes[port].peers :
                nodes' = [nodes EXCEPT ![peer] =
                              syncAt(nodes[peer], Iterate(nodes[port].pool)).node]
    /\ UNCHANGED <<tracker, written, healed>>
    /\ NetFrame

\* Miner.mine with success: the block is committed and the new chain is sent
\* to /broadcast of every peer
NetMine ==
    /\ \E port \in Ports, timestamp \in BlockTimes, nonce \in Nonces :
          /\ Len(nodes[port].blockChain) < MaxChainLen
          /\ LET mined == mineAt(nodes[port], timestamp, nonce)
             IN  /\ mined # nodes[port]
                 /\ nodes' = [q \in Ports |->
                                IF q = port THEN mined
                                ELSE IF q \in nodes[port].peers
                                THEN broadcastAt(nodes[q], mined.blockChain).node
                                ELSE nodes[q]]
    /\ UNCHANGED <<tracker, written, healed>>
    /\ NetFrame

NextNet ==
    \/ NetRegister
    \/ NetPartition
    \/ NetWrite
    \/ NetSync
    \/ NetMine

SpecNet == Init /\ [][NextNet]_vars

----------------------------------------------------------------------------
(* The tracker: the live ports, each with the timer of its last register.   *)
(* registerHandler, getMinersHandler and the callback of a timer run under  *)
(* Tracker.lock from their first statement to their last, so each is one    *)
(* step.  A timer that has fired has started its callback, which waits for  *)
(* the lock until it runs.                                                  *)

\* the orders in which a range over a map may visit its keys
Orders(keys) ==
    { order \in [1..Cardinality(keys) -> keys] :
        \A i, j \in 1..Cardinality(keys) : i # j => order[i] # order[j] }

\* the map without a key: delete(t.miners, port)
Delete(map, port) == [q \in DOMAIN map \ {port} |-> map[q]]

\* the map with a key set: t.miners[port] = timer
Put(map, port, timer) ==
    [q \in DOMAIN map \cup {port} |-> IF q = port THEN timer ELSE map[q]]

\* timer.Stop(): a timer that runs is stopped; one that has fired is not
\* touched and its callback goes on
Stop(state) == IF state = "running" THEN "stopped" ELSE state

\* the timers of a port after registerHandler: the timer of the entry, if
\* there is one, is stopped, and a new timer runs
Rearmed(port) ==
    LET old == IF port \in DOMAIN miners
               THEN [timers[port] EXCEPT ![miners[port]] = Stop(@)]
               ELSE timers[port]
    IN  Append(old, "running")

\* registerHandler that answers with the ports found before the entry is set
registerHandlerBefore(port, order) ==
    [status |-> StatusOK,
     ports  |-> IF port \in DOMAIN miners THEN order
                ELSE SelectSeq(order, LAMBDA q : q # port),
     miners |-> Put(miners, port, Len(timers[port]) + 1),
     timers |-> [timers EXCEPT ![port] = Rearmed(port)]]

\* Tracker.registerHandler; order is the order of the range over t.miners
registerHandler(port, order) ==
    [status |-> StatusOK,
     ports  |-> order,
     miners |-> Put(miners, port, Len(timers[port]) + 1),
     timers |-> [timers EXCEPT ![port] = Rearmed(port)]]

\* getMinersHandler that answers 200 with an empty list when no port is live
getMinersHandlerAlways200(order) ==
    [status |-> StatusOK, ports |-> order]

\* Tracker.getMinersHandler
getMinersHandler(order) ==
    IF DOMAIN miners = {} THEN [status |-> StatusNotFound, ports |-> <<>>]
    ELSE [status |-> StatusOK, ports |-> order]

\* the variables the tracker leaves alone
TrackerFrame ==
    UNCHANGED <<blockChain, posts, pool, mining, req, resp, lockVars, netVars,
                quitVars, userVars, moreVars>>

\* a miner sends a register, its first or a heartbeat
Register(port) ==
    /\ answer = NoAnswer
    /\ port \in renewing
    /\ Len(timers[port]) < MaxRegisters
    /\ \E order \in Orders(DOMAIN miners \cup {port}) :
          LET outcome == registerHandler(port, order)
          IN  /\ miners' = outcome.miners
              /\ timers' = outcome.timers
              /\ answer' = [op |-> "register", port |-> port,
                            status |-> outcome.status, ports |-> outcome.ports]
    /\ UNCHANGED renewing
    /\ TrackerFrame

\* a client asks for the miners
GetMiners ==
    /\ answer = NoAnswer
    /\ \E order \in Orders(DOMAIN miners) :
          LET outcome == getMinersHandler(order)
          IN  answer' = [op |-> "get_miners", status |-> outcome.status,
                         ports |-> outcome.ports]
    /\ UNCHANGED <<miners, timers, renewing>>
    /\ TrackerFrame

\* the client has the response
Answered ==
    /\ answer # NoAnswer
    /\ answer' = NoAnswer
    /\ UNCHANGED <<miners, timers, renewing>>
    /\ TrackerFrame

\* EntryTimeout has passed since a timer was created: its callback starts
TimerFires(port, i) ==
    /\ i \in DOMAIN timers[port]
    /\ timers[port][i] = "running"
    /\ timers' = [timers EXCEPT ![port][i] = "fired"]
    /\ UNCHANGED <<miners, renewing, answer>>
    /\ TrackerFrame

\* a callback that ends without deleting the entry
TimerCallbackIdle(port, i) ==
    /\ i \in DOMAIN timers[port]
    /\ timers[port][i] = "fired"
    /\ timers' = [timers EXCEPT ![port][i] = "done"]
    /\ UNCHANGED <<miners, renewing, answer>>
    /\ TrackerFrame

\* the callback of a timer gets the lock and deletes the entry of its port
TimerCallback(port, i) ==
    /\ i \in DOMAIN timers[port]
    /\ timers[port][i] = "fired"
    /\ timers' = [timers EXCEPT ![port][i] = "done"]
    /\ miners' = Delete(miners, port)
    /\ UNCHANGED <<renewing, answer>>
    /\ TrackerFrame

\* a miner sends its last heartbeat: it shuts down or is cut off
StopsRenewing(port) ==
    /\ port \in renewing
    /\ renewing' = renewing \ {port}
    /\ UNCHANGED <<miners, timers, answer>>
    /\ TrackerFrame

NextTracker ==
    \/ \E port \in TrackerPorts : Register(port)
    \/ GetMiners
    \/ Answered
    \/ \E port \in TrackerPorts, i \in 1..MaxRegisters : TimerFires(port, i)
    \/ \E port \in TrackerPorts, i \in 1..MaxRegisters : TimerCallback(port, i)
    \/ \E port \in TrackerPorts : StopsRenewing(port)

SpecTracker == Init /\ [][NextTracker]_vars

\* a timer fires or the callback of a timer runs
TimerStep ==
    \E port \in TrackerPorts, i \in 1..MaxRegisters :
        TimerFires(port, i) \/ TimerCallback(port, i)

\* A timer that runs fires when EntryTimeout has passed, and the callback of
\* a timer that has fired gets the lock, which every holder releases after a
\* bounded number of statements: while a timer runs or a callback waits,
\* one of them goes on.
SpecTrackerFair == SpecTracker /\ WF_vars(TimerStep)

----------------------------------------------------------------------------
(* Start, the background routine statement by statement, and Shutdown.      *)
(* m.quit is an unbuffered channel: a send waits until the other side       *)
(* receives.  quit names the side whose send waits.  A timer is "active"    *)
(* until it expires, "expired" while its value waits in its channel C,      *)
(* "read" once the value has been received and "stopped" after Stop.        *)

\* the variables Start, the routine's control and Shutdown leave alone
QuitFrame ==
    UNCHANGED <<mining, req, resp, lockVars, netVars, trackerVars, userVars, moreVars>>

\* Miner.Start: go m.routine()
Start ==
    /\ routine.pc = "off"
    /\ routine' = [pc |-> "register"]
    /\ UNCHANGED <<minerState, quit, caller, heartbeatTimer, syncTimer>>
    /\ QuitFrame

\* the routine registers and creates both timers
RoutineBegins ==
    /\ routine.pc = "register"
    /\ routine' = [pc |-> "select"]
    /\ heartbeatTimer' = "active"
    /\ syncTimer' = "active"
    /\ UNCHANGED <<minerState, quit, caller>>
    /\ QuitFrame

\* the time of the heartbeat timer has passed
HeartbeatExpires ==
    /\ heartbeatTimer = "active"
    /\ heartbeatTimer' = "expired"
    /\ UNCHANGED <<minerState, routine, quit, caller, syncTimer>>
    /\ QuitFrame

\* the time of the sync timer has passed
SyncExpires ==
    /\ syncTimer = "active"
    /\ syncTimer' = "expired"
    /\ UNCHANGED <<minerState, routine, quit, caller, heartbeatTimer>>
    /\ QuitFrame

\* select: case <-heartbeatTimer.C
SelectHeartbeat ==
    /\ routine.pc = "select"
    /\ heartbeatTimer = "expired"
    /\ heartbeatTimer' = "read"
    /\ routine' = [pc |-> "heartbeat"]
    /\ UNCHANGED <<minerState, quit, caller, syncTimer>>
    /\ QuitFrame

\* the heartbeat: register again and reset the timer
Heartbeat ==
    /\ routine.pc = "heartbeat"
    /\ heartbeatTimer' = "active"
    /\ routine' = [pc |-> "select"]
    /\ UNCHANGED <<minerState, quit, caller, syncTimer>>
    /\ QuitFrame

\* select: case <-syncTimer.C
SelectSync ==
    /\ routine.pc = "select"
    /\ syncTimer = "expired"
    /\ syncTimer' = "read"
    /\ routine' = [pc |-> "sync"]
    /\ UNCHANGED <<minerState, quit, caller, heartbeatTimer>>
    /\ QuitFrame

\* calls of /sync that carry the first post of the pool only
SyncWithOldest(peers, list) ==
    { [to |-> peer,
       body |-> Json([Posts |-> <<PostEncodeBase64(Head(list))>>])] :
          peer \in peers }

\* the calls of /sync the routine starts: the pool to every peer
SyncWith(peers, list) ==
    { [to |-> peer,
       body |-> Json([Posts |-> [i \in 1..Len(list) |-> PostEncodeBase64(list[i])]])] :
          peer \in peers }

\* the gossip: the pool is read; an empty pool resets the timer, any other is
\* sent to every peer
Gossip ==
    /\ routine.pc = "sync"
    /\ IF pool = {}
       THEN /\ syncTimer' = "active"
            /\ routine' = [pc |-> "select"]
       ELSE /\ routine' = [pc |-> "gossip",
                           sent |-> SyncWith(Peers, Iterate(pool))]
            /\ UNCHANGED syncTimer
    /\ UNCHANGED <<minerState, quit, caller, heartbeatTimer>>
    /\ QuitFrame

\* wg.Wait(): the calls have ended; the timer is reset
GossipEnds ==
    /\ routine.pc = "gossip"
    /\ syncTimer' = "active"
    /\ routine' = [pc |-> "select"]
    /\ UNCHANGED <<minerState, quit, caller, heartbeatTimer>>
    /\ QuitFrame

\* select: case <-m.quit, the receive that completes the send of Shutdown
SelectQuit ==
    /\ routine.pc = "select"
    /\ quit = "shutdown"
    /\ quit' = NoOffer
    /\ caller' = [pc |-> "waiting"]
    /\ routine' = [pc |-> "stopHeartbeat"]
    /\ UNCHANGED <<minerState, heartbeatTimer, syncTimer>>
    /\ QuitFrame

\* select: default, taken when no channel is ready
SelectDefault ==
    /\ routine.pc = "select"
    /\ heartbeatTimer # "expired"
    /\ syncTimer # "expired"
    /\ quit # "shutdown"
    /\ routine' = [pc |-> "mine"]
    /\ UNCHANGED <<minerState, quit, caller, heartbeatTimer, syncTimer>>
    /\ QuitFrame

\* mine() up to the release of the shared lock, as in MineAttempt
RoutineMines ==
    /\ routine.pc = "mine"
    /\ \E timestamp \in BlockTimes, nonce \in Nonces :
          LET block == Candidate(timestamp, nonce)
          IN  routine' = IF /\ Len(blockChain) < MaxChainLen
                            /\ MeetsTarget(HashHeader(block.Header))
                         THEN [pc |-> "commit", length |-> Len(blockChain),
                               block |-> block]
                         ELSE [pc |-> "select"]
    /\ UNCHANGED <<minerState, quit, caller, heartbeatTimer, syncTimer>>
    /\ QuitFrame

\* mine() from the exclusive lock to its return, as in MineCommit and
\* MineBroadcast
RoutineCommits ==
    /\ routine.pc = "commit"
    /\ LET outcome == Commit(routine.length, routine.block)
       IN  /\ blockChain' = outcome.blockChain
           /\ posts' = outcome.posts
           /\ pool' = outcome.pool
    /\ routine' = [pc |-> "select"]
    /\ UNCHANGED <<quit, caller, heartbeatTimer, syncTimer>>
    /\ QuitFrame

\* timer.Stop() and, for a timer that had expired, the receive of the value
\* waiting in its channel; the receive waits forever on a channel whose value
\* was received before
Stopped(timer) == IF timer \in {"active", "expired"} THEN "stopped" ELSE "blocked"

\* if !heartbeatTimer.Stop() { <-heartbeatTimer.C }
StopHeartbeat ==
    /\ routine.pc = "stopHeartbeat"
    /\ Stopped(heartbeatTimer) # "blocked"
    /\ heartbeatTimer' = Stopped(heartbeatTimer)
    /\ routine' = [pc |-> "stopSync"]
    /\ UNCHANGED <<minerState, quit, caller, syncTimer>>
    /\ QuitFrame

\* if !syncTimer.Stop() { <-syncTimer.C }
StopSync ==
    /\ routine.pc = "stopSync"
    /\ Stopped(syncTimer) # "blocked"
    /\ syncTimer' = Stopped(syncTimer)
    /\ routine' = [pc |-> "acknowledge"]
    /\ UNCHANGED <<minerState, quit, caller, heartbeatTimer>>
    /\ QuitFrame

\* m.quit <- struct{}{} of the routine: the send waits for its receiver
Acknowledge ==
    /\ routine.pc = "acknowledge"
    /\ quit = NoOffer
    /\ quit' = "acknowledgement"
    /\ routine' = [pc |-> "sending"]
    /\ UNCHANGED <<minerState, caller, heartbeatTimer, syncTimer>>
    /\ QuitFrame

\* Shutdown: m.quit <- struct{}{}, the send waits for its receiver
Shutdown ==
    /\ caller.pc = "idle"
    /\ routine.pc # "off"
    /\ quit = NoOffer
    /\ quit' = "shutdown"
    /\ caller' = [pc |-> "sending"]
    /\ UNCHANGED <<minerState, routine, heartbeatTimer, syncTimer>>
    /\ QuitFrame

\* a Shutdown whose receive lets the routine go on with its loop
ShutdownReturnsEarly ==
    /\ caller.pc = "waiting"
    /\ quit = "acknowledgement"
    /\ quit' = NoOffer
    /\ caller' = [pc |-> "done"]
    /\ routine' = [pc |-> "select"]
    /\ UNCHANGED <<minerState, heartbeatTimer, syncTimer>>
    /\ QuitFrame

\* Shutdown: <-m.quit, the receive that completes the send of the routine,
\* which returns
ShutdownReturns ==
    /\ caller.pc = "waiting"
    /\ quit = "acknowledgement"
    /\ quit' = NoOffer
    /\ caller' = [pc |-> "done"]
    /\ routine' = [pc |-> "done"]
    /\ UNCHANGED <<minerState, heartbeatTimer, syncTimer>>
    /\ QuitFrame

\* a user writes a post to the miner while the routine runs: the one post
\* is enough for a pool to gossip and a block with a post
WriteOne ==
    /\ req.op = "none"
    /\ \E r \in { [op |-> "write",
                    body |-> Json(PostEncodeBase64(SignedPost(User1, "a", 1)))] } :
          Served(r, writeEndpoint(r.body))

\* the steps of the routine's goroutine
RoutineStep ==
    \/ RoutineBegins
    \/ SelectHeartbeat
    \/ Heartbeat
    \/ SelectSync
    \/ Gossip
    \/ GossipEnds
    \/ SelectQuit
    \/ SelectDefault
    \/ RoutineMines
    \/ RoutineCommits
    \/ StopHeartbeat
    \/ StopSync
    \/ Acknowledge

NextQuit ==
    \/ Start
    \/ RoutineStep
    \/ HeartbeatExpires
    \/ SyncExpires
    \/ Shutdown
    \/ ShutdownReturns
    \/ WriteOne
    \/ Reply

SpecQuit == Init /\ [][NextQuit]_vars

\* The goroutines of the routine and of Shutdown are scheduled, and select
\* chooses among its ready cases at random, so a case that is ready again
\* and again is taken.
SpecQuitFair ==
    /\ SpecQuit
    /\ WF_vars(RoutineStep)
    /\ SF_vars(SelectQuit)
    /\ WF_vars(ShutdownReturns)

----------------------------------------------------------------------------
(* A post is signed, its body is changed with the signature kept, and it is *)
(* verified: the steps of TestPostSafety with the inputs drawn from sets.   *)

Signers == {User1, User2}

Contents == {"a", "b", "c"}

Timestamps == {1, 2, 3}

\* the variables the steps on the post leave alone
SignFrame ==
    UNCHANGED <<blockChain, posts, pool, mining, req, resp, lockVars, netVars,
                trackerVars, quitVars, listing, selected, moreVars>>

\* a user signs a body with its private key and states its public key
SignPost ==
    /\ thePost = NoPost
    /\ \E privateKey \in Signers, content \in Contents, timestamp \in Timestamps :
          LET post == SignedPost(privateKey, content, timestamp)
          IN  /\ thePost' = [made |-> TRUE, post |-> post]
              /\ original' = [made |-> TRUE, post |-> post]
    /\ UNCHANGED verdict
    /\ SignFrame

\* post.Body.Content = ..., the signature is kept
TamperContent ==
    /\ thePost.made
    /\ \E content \in Contents :
          thePost' = [thePost EXCEPT !.post.Body.Content = content]
    /\ UNCHANGED <<original, verdict>>
    /\ SignFrame

\* post.Body.Timestamp = ..., the signature is kept
TamperTimestamp ==
    /\ thePost.made
    /\ \E timestamp \in Timestamps :
          thePost' = [thePost EXCEPT !.post.Body.Timestamp = timestamp]
    /\ UNCHANGED <<original, verdict>>
    /\ SignFrame

\* post.Verify()
VerifyPost ==
    /\ thePost.made
    /\ verdict' = [known |-> TRUE, post |-> thePost.post, ok |-> PostVerify(thePost.post)]
    /\ UNCHANGED <<thePost, original>>
    /\ SignFrame

NextSign ==
    \/ SignPost
    \/ TamperContent
    \/ TamperTimestamp
    \/ VerifyPost

SpecSign == Init /\ [][NextSign]_vars

----------------------------------------------------------------------------
(* The user asks the tracker for miners: GetRandomMiners.                   *)

\* RWCount - the number of miners to select
RWCount == 3

\* the ports the tracker may name
ListedPorts == 8001..(8000 + MaxListed)

\* the lists the tracker sends with status 200: the keys of its map, which
\* is not empty, in any order
Listings == UNION { Orders(ports) : ports \in SUBSET ListedPorts \ {{}} }

\* what http.Get and the decoding give the user
TrackerResponses ==
    { [known |-> TRUE, reached |-> FALSE, status |-> 0, decodes |-> FALSE, ports |-> <<>>] }
    \cup { [known |-> TRUE, reached |-> TRUE, status |-> status, decodes |-> FALSE,
            ports |-> <<>>] : status \in {StatusOK, StatusNotFound, StatusBadRequest} }
    \cup { [known |-> TRUE, reached |-> TRUE, status |-> StatusOK, decodes |-> TRUE,
            ports |-> ports] : ports \in Listings }

\* the outcomes of rand.Shuffle on a list
Shuffles(list) ==
    { [i \in DOMAIN list |-> list[order[i]]] : order \in Orders(DOMAIN list) }

Failure == [known |-> TRUE, err |-> TRUE, ports |-> <<>>]

\* GetRandomMiners that does not look at the status
GetRandomMinersAnyStatus(response, shuffled) ==
    IF ~response.reached THEN Failure
    ELSE IF Len(response.ports) <= RWCount
         THEN [known |-> TRUE, err |-> FALSE, ports |-> response.ports]
    ELSE [known |-> TRUE, err |-> FALSE, ports |-> SubSeq(shuffled, 1, RWCount)]

\* User.GetRandomMiners; shuffled is the list after rand.Shuffle
GetRandomMiners(response, shuffled) ==
    IF ~response.reached THEN Failure
    ELSE IF response.status # StatusOK THEN Failure
    ELSE IF ~response.decodes THEN Failure
    ELSE IF Len(response.ports) <= RWCount
         THEN [known |-> TRUE, err |-> FALSE, ports |-> response.ports]
    ELSE [known |-> TRUE, err |-> FALSE, ports |-> SubSeq(shuffled, 1, RWCount)]

\* the variables the user leaves alone
UserFrame ==
    UNCHANGED <<blockChain, posts, pool, mining, req, resp, lockVars, netVars,
                trackerVars, quitVars, thePost, original, verdict, moreVars>>

\* the user calls GetRandomMiners and the tracker answers, or cannot be
\* reached
UserGetsMiners ==
    /\ ~selected.known
    /\ \E response \in TrackerResponses :
          /\ listing' = response
          /\ \E shuffled \in Shuffles(response.ports) :
                selected' = GetRandomMiners(response, shuffled)
    /\ UserFrame

\* the user has used the result
UserDone ==
    /\ selected.known
    /\ listing' = Nothing
    /\ selected' = Nothing
    /\ UserFrame

NextUser == UserGetsMiners \/ UserDone

SpecUser == Init /\ [][NextUser]_vars

----------------------------------------------------------------------------
(* Mining passes on pools of every size: the pool is filled by writes of    *)
(* posts that differ in timestamp or key, and the miner mines.              *)

\* posts of two users with equal and with different timestamps
PoolPosts ==
    { SignedPost(User1, "a", 1), SignedPost(User2, "a", 1),
      SignedPost(User1, "b", 2), SignedPost(User2, "b", 3) }

\* users write posts to a miner whose pool is empty: each write is answered
\* 200 and adds its post to the pool
PoolFilled ==
    /\ pool = {}
    /\ mining.pc = "idle"
    /\ req.op = "none"
    /\ \E batch \in SUBSET PoolPosts :
          /\ batch # {}
          /\ \A p \in batch : writeHandler(p).status = StatusOK
          /\ pool' = batch
    /\ UNCHANGED <<blockChain, posts, mining, req, resp, lockVars, netVars, sideVars>>

NextMine ==
    \/ PoolFilled
    \/ MineAttempt
    \/ MineCommit
    \/ MineBroadcast

SpecMine == Init /\ [][NextMine]_vars

----------------------------------------------------------------------------
(* The loop of mine() over the nonces, iteration by iteration.              *)

\* the values rand.Uint32() gives: enough for every kind of digest
PowNonces == 0..7

PowFrame ==
    UNCHANGED <<mining, req, resp, lockVars, netVars, trackerVars, quitVars, userVars,
                gossipVars, callVars, readVars>>

\* a user writes a post to a miner with an empty pool while no pass is
\* running
WritesBetweenPasses ==
    /\ pass.pc = "idle"
    /\ pool = {}
    /\ \E p \in PoolPosts :
          /\ writeHandler(p).status = StatusOK
          /\ pool' = writeHandler(p).pool
    /\ UNCHANGED <<blockChain, posts, pass>>
    /\ PowFrame

\* mine() up to the loop: the length is noted and the block filled in
PassBegins ==
    /\ pass.pc = "idle"
    /\ Len(blockChain) < MaxChainLen
    /\ \E timestamp \in BlockTimes :
          pass' = [pc |-> "loop", i |-> 0, tried |-> 0, success |-> FALSE,
                   length |-> Len(blockChain), block |-> Candidate(timestamp, 0),
                   hash |-> ZeroHash, met |-> FALSE]
    /\ UNCHANGED minerState
    /\ PowFrame

\* one iteration: a nonce is drawn, the header hashed and the digest checked;
\* the loop is left when the digest meets the target
PassTries ==
    /\ pass.pc = "loop"
    /\ pass.i < MiningIterations
    /\ \E nonce \in PowNonces :
          LET block == [pass.block EXCEPT !.Header.Nonce = nonce]
              hash  == HashHeader(block.Header)
          IN  pass' = [pass EXCEPT !.block = block,
                                   !.hash = hash,
                                   !.met = MeetsTarget(hash),
                                   !.tried = @ + 1,
                                   !.success = MeetsTarget(hash),
                                   !.i = IF MeetsTarget(hash) THEN @ ELSE @ + 1,
                                   !.pc = IF MeetsTarget(hash) THEN "out" ELSE "loop"]
    /\ UNCHANGED minerState
    /\ PowFrame

\* i < MiningIterations is false: the loop ends without success
PassExhausts ==
    /\ pass.pc = "loop"
    /\ pass.i >= MiningIterations
    /\ pass' = [pass EXCEPT !.pc = "out"]
    /\ UNCHANGED minerState
    /\ PowFrame

\* a pass that commits its block whether or not a nonce met the target
PassReturnsCommitting ==
    /\ pass.pc = "out"
    /\ LET outcome == Commit(pass.length, pass.block)
       IN  /\ blockChain' = outcome.blockChain
           /\ posts' = outcome.posts
           /\ pool' = outcome.pool
    /\ pass' = [pc |-> "idle"]
    /\ PowFrame

\* the rest of mine(): it returns if no nonce met the target, and otherwise
\* commits the block and broadcasts the chain
PassReturns ==
    /\ pass.pc = "out"
    /\ IF pass.success
       THEN LET outcome == Commit(pass.length, pass.block)
            IN  /\ blockChain' = outcome.blockChain
                /\ posts' = outcome.posts
                /\ pool' = outcome.pool
       ELSE UNCHANGED minerState
    /\ pass' = [pc |-> "idle"]
    /\ PowFrame

\* the steps of a mining pass
PassStep == PassTries \/ PassExhausts \/ PassReturns

NextPoW ==
    \/ WritesBetweenPasses
    \/ PassBegins
    \/ PassStep

SpecPoW == Init /\ [][NextPoW]_vars

\* the goroutine of the routine is scheduled while it is inside mine()
SpecPoWFair == SpecPoW /\ WF_vars(PassStep)

----------------------------------------------------------------------------
(* Heartbeat and gossip of a miner, with the answers of the tracker and of  *)
(* the peers.                                                               *)

\* the port of the miner
OwnPort == 3001

\* the ports the tracker knows
RegisterPorts == {3001, 3002, 3003}

\* what http.Post to /register and the decoding give the miner; a list of the
\* tracker names the live ports in any order, the caller among them
RegisterResponses ==
    { [known |-> TRUE, reached |-> FALSE, status |-> 0, decodes |-> FALSE, ports |-> <<>>] }
    \cup { [known |-> TRUE, reached |-> TRUE, status |-> status, decodes |-> FALSE,
            ports |-> <<>>] : status \in {StatusOK, StatusBadRequest} }
    \cup { [known |-> TRUE, reached |-> TRUE, status |-> StatusOK, decodes |-> TRUE,
            ports |-> ports] :
              ports \in UNION { Orders(live) :
                                  live \in { l \in SUBSET RegisterPorts : OwnPort \in l } } }

\* the list without its first element equal to port
RemoveFirst(list, port) ==
    LET found == { i \in DOMAIN list : list[i] = port }
    IN  IF found = {} THEN list
        ELSE LET i == CHOOSE k \in found : \A l \in found : k <= l
             IN  SubSeq(list, 1, i - 1) \o SubSeq(list, i + 1, Len(list))

\* register that returns the list of the tracker as it is
registerKeepsSelf(response) ==
    IF ~response.reached \/ response.status # StatusOK \/ ~response.decodes
    THEN <<>>
    ELSE response.ports

\* Miner.register: nil on every failure, else the ports without the own one
register(response) ==
    IF ~response.reached THEN <<>>
    ELSE IF response.status # StatusOK THEN <<>>
    ELSE IF ~response.decodes THEN <<>>
    ELSE RemoveFirst(response.ports, OwnPort)

\* the register failed
Failed(response) ==
    response.known /\ (~response.reached \/ response.status # StatusOK \/ ~response.decodes)

\* no call of the gossip is waiting for its response
NoCallOpen == \A c \in calls : c.state # "sent"

GossipFrame ==
    UNCHANGED <<mining, req, resp, lockVars, netVars, trackerVars, userVars,
                routine, quit, caller, powVars, callVars, readVars>>

\* the routine starts: it registers and creates its timers
GossipBegins ==
    /\ heartbeatTimer = NoTimer
    /\ \E response \in RegisterResponses :
          peerList' = [heard |-> response, peers |-> register(response), retry |-> FALSE]
    /\ heartbeatTimer' = "active"
    /\ syncTimer' = "active"
    /\ UNCHANGED <<minerState, calls>>
    /\ GossipFrame

\* case <-heartbeatTimer.C: the routine registers again and resets the timer
HeartbeatRegisters ==
    /\ heartbeatTimer = "expired"
    /\ NoCallOpen
    /\ \E response \in RegisterResponses :
          peerList' = [heard |-> response, peers |-> register(response),
                       retry |-> Failed(peerList.heard)]
    /\ heartbeatTimer' = "active"
    /\ UNCHANGED <<minerState, calls, syncTimer>>
    /\ GossipFrame

\* case <-syncTimer.C: the pool is read; an empty pool resets the timer, any
\* other is sent to every peer
GossipFires ==
    /\ syncTimer = "expired"
    /\ NoCallOpen
    /\ IF pool = {}
       THEN /\ calls' = {}
            /\ syncTimer' = "active"
       ELSE /\ calls' = { [to |-> c.to, body |-> c.body, state |-> "sent"] :
                            c \in SyncWith({ peerList.peers[i] : i \in DOMAIN peerList.peers },
                                           Iterate(pool)) }
            /\ syncTimer' = "read"
    /\ UNCHANGED <<minerState, peerList, heartbeatTimer>>
    /\ GossipFrame

\* syncWith: the call ends with an error, with 200 or with another status;
\* the miner logs it
SyncAnswered ==
    /\ \E c \in calls, outcome \in {"error", "ok", "rejected"} :
          /\ c.state = "sent"
          /\ calls' = (calls \ {c}) \cup {[c EXCEPT !.state = outcome]}
    /\ UNCHANGED <<minerState, peerList, heartbeatTimer, syncTimer>>
    /\ GossipFrame

\* wg.Wait() returns and the timer is reset
GossipDone ==
    /\ syncTimer = "read"
    /\ NoCallOpen
    /\ syncTimer' = "active"
    /\ UNCHANGED <<minerState, peerList, calls, heartbeatTimer>>
    /\ GossipFrame

\* users write two posts to the miner, in any order and at any time
GossipWrite ==
    /\ req.op = "none"
    /\ \E p \in {SignedPost(User1, "a", 1), SignedPost(User2, "a", 1)} :
          LET r == [op |-> "write", body |-> Json(PostEncodeBase64(p))]
          IN  Served(r, writeEndpoint(r.body))

NextGossip ==
    \/ GossipBegins
    \/ HeartbeatExpires
    \/ SyncExpires
    \/ HeartbeatRegisters
    \/ GossipFires
    \/ SyncAnswered
    \/ GossipDone
    \/ GossipWrite
    \/ Reply

SpecGossip == Init /\ [][NextGossip]_vars

----------------------------------------------------------------------------
(* The user reads: ReadPosts asks the selected miners for their chains and  *)
(* returns the posts of the first chain, from the longest on, that passes   *)
(* its checks.                                                              *)

\* the plans of the chains miners serve on /read: valid chains of one and
\* two blocks with posts in and out of order, chains with two posts of one
\* author and timestamp, and chains that fail one check of ReadPosts
ReadPlans ==
    LET a   == SignedPost(User1, "a", 1)
        b   == SignedPost(User1, "b", 1)
        c   == SignedPost(User2, "a", 1)
        two == <<HonestPlan(<<a>>), HonestPlan(<<c>>)>>
    IN  { <<>>, <<HonestPlan(<<c>>)>>, <<HonestPlan(<<a, c>>)>>, <<HonestPlan(<<c, a>>)>>,
          two, <<HonestPlan(<<c>>), HonestPlan(<<b>>)>>, <<HonestPlan(<<>>), HonestPlan(<<>>)>> }
        \cup { <<HonestPlan(<<a, b>>)>>, <<HonestPlan(<<a>>), HonestPlan(<<b>>)>>,
               <<HonestPlan(<<a, a>>)>>, <<HonestPlan(<<a>>), HonestPlan(<<a>>)>> }
        \cup UNION {
               { [two EXCEPT ![i].prev = IF i = 1 THEN "bogus" ELSE "zero"],
                 [two EXCEPT ![i].summary = "bad"],
                 [two EXCEPT ![i].nonce = CHOOSE n \in Nonces \ GoodNonces : TRUE],
                 [two EXCEPT ![i].posts = <<TamperedPost>> \o @] }
               : i \in 1..2 }

\* what a miner asked on /read can make the user receive: no answer, a body
\* that is not the expected JSON, a block that does not decode, or a chain
ReadResponses ==
    { [reached |-> FALSE, body |-> MalformedJson],
      [reached |-> TRUE, body |-> MalformedJson],
      [reached |-> TRUE, body |-> Json([Blockchain |->
            <<[BlockEncodeBase64(BuildChain(<<HonestPlan(<<>>)>>)[1])
                   EXCEPT !.Header.PrevHash = NotBase64]>>])] }
    \cup { [reached |-> TRUE, body |-> Json([Blockchain |-> EncodeChain(BuildChain(c))])] :
              c \in ReadPlans }

\* the goroutine of ReadPosts for one miner: nil, a slice of length zero,
\* when the miner is not reached or its answer does not decode
FetchChain(response) ==
    IF ~response.reached THEN <<>>
    ELSE IF ~response.body.json THEN <<>>
    ELSE LET encoded == response.body.val.Blockchain
             decoded == [i \in 1..Len(encoded) |-> BlockDecodeBase64(encoded[i])]
         IN  IF \E i \in 1..Len(decoded) : decoded[i].err THEN <<>>
             ELSE [i \in 1..Len(decoded) |-> decoded[i].val]

\* the outcomes of sort.Slice by decreasing length, which keeps no order
\* among chains of one length
SortedByLength(chains) ==
    { l \in Shuffles(chains) :
        \A i, j \in 1..Len(l) : i < j => Len(l[i]) >= Len(l[j]) }

NoPosts == [found |-> FALSE, set |-> {}]

\* the body of the loop VerifyChains for one chain
VerifyChain(chain) ==
    IF chain = <<>> THEN NoPosts
    ELSE IF \E i \in 1..Len(chain) : ~BlockVerify(chain[i]) THEN NoPosts
    ELSE IF chain[1].Header.PrevHash # ZeroHash THEN NoPosts
    ELSE IF \E i \in 2..Len(chain) :
               chain[i].Header.PrevHash # HashHeader(chain[i - 1].Header)
         THEN NoPosts
    ELSE LET collected == CollectPosts(ChainPosts(chain), {})
         IN  IF collected.dup THEN NoPosts
             ELSE [found |-> TRUE, set |-> collected.set]

RECURSIVE VerifyChains(_)
\* the loop VerifyChains: the posts of the first chain that passes
VerifyChains(chains) ==
    IF chains = <<>> THEN NoPosts
    ELSE IF VerifyChain(Head(chains)).found THEN VerifyChain(Head(chains))
    ELSE VerifyChains(Tail(chains))

ReadFailure == [known |-> TRUE, err |-> TRUE, posts |-> <<>>]

\* User.ReadPosts from the answer of GetRandomMiners on; sorted is the list
\* of the fetched chains after sort.Slice
ReadPosts(chosen, sorted) ==
    IF chosen.err THEN ReadFailure
    ELSE LET found == VerifyChains(sorted)
         IN  IF ~found.found THEN ReadFailure
             ELSE [known |-> TRUE, err |-> FALSE, posts |-> Iterate(found.set)]

\* the answers GetRandomMiners may give: an error, or at most MaxFetched ports
SelectedMiners ==
    { Failure }
    \cup { [known |-> TRUE, err |-> FALSE, ports |-> [i \in 1..n |-> 8000 + i]] :
              n \in 0..MaxFetched }

ReadFrame ==
    UNCHANGED <<minerState, mining, req, resp, lockVars, netVars, trackerVars,
                quitVars, userVars, powVars, gossipVars, callVars>>

\* ReadPosts up to the last receive from the channel: the miners are
\* selected and each is asked for its chain
ReadFetches ==
    /\ ~fetched.known
    /\ \E chosen \in SelectedMiners :
       \E responses \in [DOMAIN chosen.ports -> ReadResponses] :
          fetched' = [known  |-> TRUE,
                      miners |-> chosen,
                      chains |-> [i \in DOMAIN chosen.ports |-> FetchChain(responses[i])]]
    /\ readPosts' = Nothing
    /\ ReadFrame

\* ReadPosts from the sort on: it returns
ReadReturns ==
    /\ fetched.known
    /\ ~readPosts.known
    /\ \E sorted \in SortedByLength(fetched.chains) :
          readPosts' = ReadPosts(fetched.miners, sorted)
    /\ UNCHANGED fetched
    /\ ReadFrame

\* the caller has used the result
ReadDone ==
    /\ readPosts.known
    /\ fetched' = Nothing
    /\ readPosts' = Nothing
    /\ ReadFrame

NextRead == ReadFetches \/ ReadReturns \/ ReadDone

SpecRead == Init /\ [][NextRead]_vars

----------------------------------------------------------------------------
(* Two miners that call each other: the routine of each takes its lock to   *)
(* copy the pool, to try nonces and to commit, and sends /sync and          *)
(* /broadcast to the other, whose handler takes the other's lock            *)
(* exclusively.  The data of the miners is left out.                        *)

\* the peer of a miner
Peer(m) == CHOOSE q \in Callers : q # m

Selecting == [pc |-> "select"]

\* m.lock.RLock() returns: no writer holds the lock and none waits for it
\* (a call of RLock blocks while a call of Lock is waiting)
CanRLockAt(m) == locks[m].writer = "none" /\ serving[m].pc # "waiting"

\* m.lock.Lock() returns: nobody holds the lock
CanLockAt(m) == locks[m] = NoLock

RLocked(m) == [locks EXCEPT ![m].readers = @ \cup {"routine"}]

RUnlocked(m) == [locks EXCEPT ![m].readers = @ \ {"routine"}]

Locked(m, who) == [locks EXCEPT ![m].writer = who]

Unlocked(m) == [locks EXCEPT ![m].writer = "none"]

CallFrame ==
    UNCHANGED <<minerState, mining, req, resp, lockVars, netVars, trackerVars,
                quitVars, userVars, powVars, gossipVars, readVars>>

\* the routine calls register(): the request to the tracker is sent
CallsRegister(m) ==
    /\ routines[m].pc = "select"
    /\ routines' = [routines EXCEPT ![m] = [pc |-> "register"]]
    /\ UNCHANGED <<locks, serving>>
    /\ CallFrame

\* http.Post to the tracker returns, with an answer or an error
RegisterReturns(m) ==
    /\ routines[m].pc = "register"
    /\ routines' = [routines EXCEPT ![m] = Selecting]
    /\ UNCHANGED <<locks, serving>>
    /\ CallFrame

\* the sync case: the routine takes the shared lock to copy the pool
SyncCopies(m) ==
    /\ routines[m].pc = "select"
    /\ CanRLockAt(m)
    /\ locks' = RLocked(m)
    /\ routines' = [routines EXCEPT ![m] = [pc |-> "copy"]]
    /\ UNCHANGED serving
    /\ CallFrame

\* the sync case that sends the calls with the shared lock still held
SyncKeepsLock(m) ==
    /\ routines[m].pc = "copy"
    /\ routines' = [routines EXCEPT ![m] = [pc |-> "send", op |-> "sync"]]
    /\ UNCHANGED <<locks, serving>>
    /\ CallFrame

\* the pool is copied and the routine releases the lock; with an empty pool
\* or no peer the case is over
SyncReleases(m) ==
    /\ routines[m].pc = "copy"
    /\ locks' = RUnlocked(m)
    /\ \/ routines' = [routines EXCEPT ![m] = [pc |-> "send", op |-> "sync"]]
       \/ routines' = [routines EXCEPT ![m] = Selecting]
    /\ UNCHANGED serving
    /\ CallFrame

\* syncWith / broadcastTo: the request reaches the peer, whose server starts
\* the handler, or http.Post fails
Sends(m) ==
    /\ routines[m].pc = "send"
    /\ \/ /\ serving[Peer(m)].pc = "idle"
          /\ serving' = [serving EXCEPT ![Peer(m)] = [pc |-> "waiting", op |-> routines[m].op]]
          /\ routines' = [routines EXCEPT ![m].pc = "wait"]
       \/ /\ routines' = [routines EXCEPT ![m].pc = "failed"]
          /\ UNCHANGED serving
    /\ UNCHANGED locks
    /\ CallFrame

\* wg.Wait returns after a call that failed
CallFailed(m) ==
    /\ routines[m].pc = "failed"
    /\ routines' = [routines EXCEPT ![m] = Selecting]
    /\ UNCHANGED <<locks, serving>>
    /\ CallFrame

\* syncHandler / broadcastHandler: m.lock.Lock() returns
HandlerLocks(m) ==
    /\ serving[m].pc = "waiting"
    /\ CanLockAt(m)
    /\ locks' = Locked(m, "handler")
    /\ serving' = [serving EXCEPT ![m].pc = "locked"]
    /\ UNCHANGED routines
    /\ CallFrame

\* the handler returns: the lock is released and the answer reaches the
\* caller, whose wg.Wait returns
HandlerAnswers(m) ==
    /\ serving[m].pc = "locked"
    /\ locks' = Unlocked(m)
    /\ serving' = [serving EXCEPT ![m] = [pc |-> "idle"]]
    /\ routines' = [routines EXCEPT ![Peer(m)] = Selecting]
    /\ CallFrame

\* mine(): the routine takes the shared lock and builds the candidate
MineBegins(m) ==
    /\ routines[m].pc = "select"
    /\ CanRLockAt(m)
    /\ locks' = RLocked(m)
    /\ routines' = [routines EXCEPT ![m] = [pc |-> "pow", i |-> 0, success |-> FALSE]]
    /\ UNCHANGED serving
    /\ CallFrame

\* one iteration of the mining loop: a nonce is tried; the loop ends when the
\* hash meets the target or after MiningIterations nonces
MineTries(m) ==
    /\ routines[m].pc = "pow"
    /\ \E met \in BOOLEAN :
          routines' = [routines EXCEPT ![m] =
                          IF met \/ @.i + 1 = MiningIterations
                          THEN [pc |-> "tried", success |-> met]
                          ELSE [pc |-> "pow", i |-> @.i + 1, success |-> FALSE]]
    /\ UNCHANGED <<locks, serving>>
    /\ CallFrame

\* the shared lock is released after the loop; without success mine() returns
MineReleases(m) ==
    /\ routines[m].pc = "tried"
    /\ locks' = RUnlocked(m)
    /\ routines' = [routines EXCEPT ![m] =
                       IF @.success THEN [pc |-> "commit"] ELSE Selecting]
    /\ UNCHANGED serving
    /\ CallFrame

\* the commit: m.lock.Lock() returns
CommitLocks(m) ==
    /\ routines[m].pc = "commit"
    /\ CanLockAt(m)
    /\ locks' = Locked(m, "routine")
    /\ routines' = [routines EXCEPT ![m] = [pc |-> "committing"]]
    /\ UNCHANGED serving
    /\ CallFrame

\* the commit that starts the broadcast before it unlocks
CommitKeepsLock(m) ==
    /\ routines[m].pc = "committing"
    /\ routines' = [routines EXCEPT ![m] = [pc |-> "send", op |-> "broadcast"]]
    /\ UNCHANGED <<locks, serving>>
    /\ CallFrame

\* the commit ends: on a chain of another length mine() unlocks and returns,
\* otherwise the block is appended, the chain encoded and the lock released
\* before the broadcast
CommitUnlocks(m) ==
    /\ routines[m].pc = "committing"
    /\ locks' = Unlocked(m)
    /\ \/ routines' = [routines EXCEPT ![m] = [pc |-> "send", op |-> "broadcast"]]
       \/ routines' = [routines EXCEPT ![m] = Selecting]
    /\ UNCHANGED serving
    /\ CallFrame

\* the steps of the routine of a miner that follow from a step it has begun
RoutineProgress(m) ==
    \/ RegisterReturns(m) \/ SyncReleases(m) \/ Sends(m) \/ CallFailed(m)
    \/ MineTries(m) \/ MineReleases(m) \/ CommitLocks(m) \/ CommitUnlocks(m)

\* the steps of the handler of a miner
HandlerStep(m) == HandlerLocks(m) \/ HandlerAnswers(m)

NextCalls ==
    \E m \in Callers :
        \/ CallsRegister(m) \/ RegisterReturns(m)
        \/ SyncCopies(m) \/ SyncReleases(m)
        \/ Sends(m) \/ CallFailed(m)
        \/ HandlerLocks(m) \/ HandlerAnswers(m)
        \/ MineBegins(m) \/ MineTries(m) \/ MineReleases(m)
        \/ CommitLocks(m) \/ CommitUnlocks(m)

SpecCalls == Init /\ [][NextCalls]_vars

\* every goroutine that can run does run, and a call of Lock or RLock that
\* can return does return
SpecCallsFair ==
    SpecCalls /\ \A m \in Callers : WF_vars(RoutineProgress(m)) /\ WF_vars(HandlerStep(m))

----------------------------------------------------------------------------
(* Vocabulary of the properties *)

\* the set of the posts that occur in the blocks of a chain
PostsOf(chain) ==
    LET all == ChainPosts(chain) IN { all[k] : k \in 1..Len(all) }

\* the blocks of a chain in which a post occurs
BlocksWith(chain, post) ==
    { i \in 1..Len(chain) : \E j \in 1..Len(chain[i].Posts) : chain[i].Posts[j] = post }

\* a valid chain: every block verifies, the first previous-hash is zero, each
\* later previous-hash is the hash of the header before it, and no post
\* occurs twice in the chain (so none occurs in more than one block)
ChainValid(chain) ==
    /\ \A i \in 1..Len(chain) : BlockVerify(chain[i])
    /\ Len(chain) > 0 => chain[1].Header.PrevHash = ZeroHash
    /\ \A i \in 2..Len(chain) :
          chain[i].Header.PrevHash = HashHeader(chain[i - 1].Header)
    /\ LET all == ChainPosts(chain)
       IN  \A k, l \in 1..Len(all) : k # l => all[k] # all[l]

\* the body of a /write request carries a post that decodes
CarriesPost(body) == body.json /\ ~PostDecodeBase64(body.val).err

PostIn(body) == PostDecodeBase64(body.val).val

\* the body of a /broadcast request carries a chain whose blocks all decode
CarriesChain(body) ==
    /\ body.json
    /\ \A i \in 1..Len(body.val.Blockchain) :
          ~BlockDecodeBase64(body.val.Blockchain[i]).err

ChainIn(body) ==
    [i \in 1..Len(body.val.Blockchain) |-> BlockDecodeBase64(body.val.Blockchain[i]).val]

\* the body of a /sync request carries a batch whose posts all decode
CarriesBatch(body) ==
    /\ body.json
    /\ \A i \in 1..Len(body.val.Posts) : ~PostDecodeBase64(body.val.Posts[i]).err

BatchIn(body) ==
    [i \in 1..Len(body.val.Posts) |-> PostDecodeBase64(body.val.Posts[i]).val]

\* the chain a client decodes from the body of a /read response
ChainRead(body) == [i \in 1..Len(body) |-> BlockDecodeBase64(body[i]).val]

\* this step is the handling of a request of the given kind
Handles(op) == req.op = "none" /\ req'.op = op

\* this step is the commit of mine(): the block is appended or dropped
Commits == mining.pc = "commit" /\ mining'.pc # "commit"

\* the hash the next block of a chain has to carry as its previous-hash
TipHash(chain) ==
    IF chain = <<>> THEN ZeroHash ELSE HashHeader(chain[Len(chain)].Header)

\* the set of the posts of a block
BlockPosts(block) == { block.Posts[i] : i \in 1..Len(block.Posts) }

----------------------------------------------------------------------------
(* C1..C10 *)

\* C1: in every reachable state the miner's chain is valid: every block
\* verifies, the first block's previous-hash is all zeros, each later block's
\* previous-hash is the hash of the header before it, and no post occurs in
\* more than one block.
C1_ChainAlwaysValid == ChainValid(blockChain)

\* a block mined on top of a block, both with posts, is committed
C1_Witness ==
    /\ mining.pc = "broadcast"
    /\ Len(blockChain) = 2
    /\ blockChain[1].Posts # <<>>
    /\ blockChain[2].Posts # <<>>

\* C2: in every reachable state no post is both in the pending pool and in
\* the accepted-post index.
C2_PoolIndexDisjoint == pool \cap posts = {}

\* a broadcast was accepted and left posts in the pool beside those accepted
C2_Witness ==
    /\ req.op = "broadcast"
    /\ CarriesChain(req.body)
    /\ blockChain = ChainIn(req.body)
    /\ pool # {}
    /\ posts # {}

\* C3: in every reachable state a post is in the accepted-post index if and
\* only if it occurs in exactly one block of the current chain.
C3_IndexIsChainPosts ==
    \A p \in posts \cup PostsOf(blockChain) :
        p \in posts <=> Cardinality(BlocksWith(blockChain, p)) = 1

\* the index holds the posts of two blocks, the second one mined here
C3_Witness ==
    /\ mining.pc = "broadcast"
    /\ Len(blockChain) = 2
    /\ Cardinality(posts) = 2
    /\ blockChain[2].Posts # <<>>

\* C4: when broadcast receives a valid chain strictly longer than the local
\* chain, afterwards the local chain is the received chain and every post of
\* the old chain is on the new chain or in the pool.
C4_LongerValidChainAdopted ==
    [][ LET received == ChainIn(req'.body)
        IN  ( /\ Handles("broadcast")
              /\ CarriesChain(req'.body)
              /\ Len(received) > Len(blockChain)
              /\ ChainValid(received) )
            => ( /\ blockChain' = received
                 /\ \A p \in PostsOf(blockChain) :
                        p \in PostsOf(blockChain') \/ p \in pool' )
      ]_vars

\* C5: a broadcast whose chain is not strictly longer than the local chain
\* leaves chain, accepted-post index and pool unchanged.
C5_NotLongerIgnored ==
    [][ ( /\ Handles("broadcast")
          /\ CarriesChain(req'.body)
          /\ Len(ChainIn(req'.body)) <= Len(blockChain) )
        => UNCHANGED minerState
      ]_vars

\* a valid chain as long as the local one, and different from it, was offered
\* and the local chain is not that chain
C5_Witness ==
    /\ req.op = "broadcast"
    /\ CarriesChain(req.body)
    /\ Len(blockChain) > 0
    /\ Len(ChainIn(req.body)) = Len(blockChain)
    /\ ChainValid(ChainIn(req.body))
    /\ ChainIn(req.body) # blockChain
    /\ resp.status = StatusOK

\* C6: a broadcast of a strictly longer chain that fails a check is answered
\* with status 200 and leaves chain, accepted-post index and pool unchanged.
C6_InvalidChainIgnored ==
    [][ LET received == ChainIn(req'.body)
        IN  ( /\ Handles("broadcast")
              /\ CarriesChain(req'.body)
              /\ Len(received) > Len(blockChain)
              /\ ~ChainValid(received) )
            => ( resp'.status = StatusOK /\ UNCHANGED minerState )
      ]_vars

\* a longer chain whose blocks all verify but whose link is broken was
\* offered to a miner that has a chain, and was answered with 200
C6_Witness ==
    /\ req.op = "broadcast"
    /\ CarriesChain(req.body)
    /\ Len(blockChain) > 0
    /\ Len(ChainIn(req.body)) > Len(blockChain)
    /\ \A i \in 1..Len(ChainIn(req.body)) : BlockVerify(ChainIn(req.body)[i])
    /\ ~ChainValid(ChainIn(req.body))
    /\ resp.status = StatusOK

\* C7: every request to /broadcast is answered with status 200, whatever its
\* body.
C7_BroadcastAlways200 == req.op = "broadcast" => resp.status = StatusOK

\* C7 as amended: a request to /broadcast is answered with 200 when its body
\* is well-formed JSON whose blocks all decode, and with 400 otherwise.
C7_BroadcastStatus ==
    req.op = "broadcast" =>
        resp.status = IF CarriesChain(req.body) THEN StatusOK ELSE StatusBadRequest

\* a body with a block that is not base64 was answered with 400
C7_Witness ==
    /\ req.op = "broadcast"
    /\ req.body.json
    /\ ~CarriesChain(req.body)
    /\ resp.status = StatusBadRequest

\* C8: write of a post whose signature does not verify is answered with 400
\* and leaves pool, chain and accepted-post index unchanged.
C8_InvalidPostRejected ==
    [][ ( /\ Handles("write")
          /\ CarriesPost(req'.body)
          /\ ~PostVerify(PostIn(req'.body)) )
        => ( resp'.status = StatusBadRequest /\ UNCHANGED minerState )
      ]_vars

\* a post that does not verify was written to a miner with a chain and a pool
C8_Witness ==
    /\ req.op = "write"
    /\ CarriesPost(req.body)
    /\ ~PostVerify(PostIn(req.body))
    /\ resp.status = StatusBadRequest
    /\ blockChain # <<>>
    /\ pool # {}

\* C9: write of a validly signed post that is already on the chain or in the
\* pool is answered with 400 and chain, accepted-post index and pool are
\* unchanged.
C9_DuplicateRejected ==
    [][ ( /\ Handles("write")
          /\ CarriesPost(req'.body)
          /\ PostVerify(PostIn(req'.body))
          /\ PostIn(req'.body) \in PostsOf(blockChain) \cup pool )
        => ( resp'.status = StatusBadRequest /\ UNCHANGED minerState )
      ]_vars

\* a post that is on the chain was written again and rejected
C9_Witness ==
    /\ req.op = "write"
    /\ CarriesPost(req.body)
    /\ PostIn(req.body) \in PostsOf(blockChain)
    /\ resp.status = StatusBadRequest

\* C10: write of a validly signed post that is neither on the chain nor in the
\* pool is answered with 200 and adds exactly that post to the pool; chain,
\* accepted-post index and the other pool entries are unchanged.
C10_NewPostAdmitted ==
    [][ ( /\ Handles("write")
          /\ CarriesPost(req'.body)
          /\ PostVerify(PostIn(req'.body))
          /\ PostIn(req'.body) \notin PostsOf(blockChain) \cup pool )
        => ( /\ resp'.status = StatusOK
             /\ pool' = pool \cup {PostIn(req'.body)}
             /\ UNCHANGED <<blockChain, posts>> )
      ]_vars

----------------------------------------------------------------------------
(* C11..C20 *)

\* C11: sync of a batch in which some post fails signature verification is
\* answered with 400 and adds no post of the batch to the pool, the valid
\* ones before the invalid one included; chain and index are unchanged.
C11_SyncAllOrNothing ==
    [][ LET batch == BatchIn(req'.body)
        IN  ( /\ Handles("sync")
              /\ CarriesBatch(req'.body)
              /\ \E i \in 1..Len(batch) : ~PostVerify(batch[i]) )
            => ( resp'.status = StatusBadRequest /\ UNCHANGED minerState )
      ]_vars

\* a batch with an unknown valid post before an invalid one was rejected
C11_Witness ==
    /\ req.op = "sync"
    /\ CarriesBatch(req.body)
    /\ LET batch == BatchIn(req.body)
       IN  /\ Len(batch) >= 2
           /\ PostVerify(batch[1])
           /\ ~Contains(posts, batch[1])
           /\ ~Contains(pool, batch[1])
           /\ ~PostVerify(batch[2])
    /\ resp.status = StatusBadRequest

\* C12: sync of a batch in which every post verifies is answered with 200 and
\* makes the pool the old pool plus exactly the posts of the batch that were
\* neither on the chain nor in the pool; chain and index are unchanged.
C12_SyncAddsUnknown ==
    [][ LET batch == BatchIn(req'.body)
        IN  ( /\ Handles("sync")
              /\ CarriesBatch(req'.body)
              /\ \A i \in 1..Len(batch) : PostVerify(batch[i]) )
            => ( /\ resp'.status = StatusOK
                 /\ pool' = pool \cup ({ batch[i] : i \in 1..Len(batch) }
                                     \ PostsOf(blockChain))
                 /\ UNCHANGED <<blockChain, posts>> )
      ]_vars

\* C13: read is answered with 200 and the miner's complete chain in order,
\* the empty list when there is no block, and changes nothing in the state.
C13_ReadReturnsChain ==
    [][ Handles("read")
        => ( /\ resp'.status = StatusOK
             /\ ChainRead(resp'.body) = blockChain
             /\ UNCHANGED minerState )
      ]_vars

\* a chain of two blocks was read
C13_Witness ==
    /\ req.op = "read"
    /\ Len(blockChain) = 2
    /\ Len(resp.body) = 2

\* a handler at its return, or the commit of mine at its unlock, has made of
\* the state what the operation as a whole makes of the state it found when
\* it took the lock
AsExpected(t) ==
    LET th == threads[t]
    IN  /\ blockChain = th.expected.blockChain
        /\ posts = th.expected.posts
        /\ pool = th.expected.pool
        /\ IF t = "mine" THEN th.success = th.expected.done
           ELSE th.status = th.expected.status /\ th.body = th.expected.body

\* C14: read, write, sync, broadcast and the mining commit are atomic with
\* respect to each other: each has, when it releases the lock, the effect and
\* the response of the whole operation on the state at the time it took the
\* lock; the snapshot of a mining pass is the candidate of one such state;
\* and while no goroutine holds the lock exclusively the state is none in
\* which only a part of the fields is replaced: the index holds the posts of
\* the chain and shares no post with the pool.
C14_Atomic ==
    /\ \A t \in Threads : threads[t].pc \in {"done", "committed"} => AsExpected(t)
    /\ threads["mine"].pc = "snapped" =>
          /\ threads["mine"].length = threads["mine"].expected.length
          /\ threads["mine"].block = threads["mine"].expected.block
    /\ lock.writer = "none" =>
          /\ posts = CollectPosts(ChainPosts(blockChain), {}).set
          /\ pool \cap posts = {}

\* a broadcast has replaced the chain and not yet the index and the pool,
\* while a reader is stopped at the lock and the routine holds a mined block
C14_Witness ==
    /\ threads["broadcast"].pc = "assignPosts"
    /\ posts # threads["broadcast"].posts
    /\ pool # threads["broadcast"].pool
    /\ threads["read"].pc = "idle"
    /\ ~CanRLock
    /\ threads["mine"].pc = "mined"

\* C15: the miner's duplicate detection takes two posts for the same post if
\* and only if their bodies (content and timestamp) and their public keys are
\* equal: a known post and an offered post compare equal exactly in that case.
C15_DuplicateIffEqual ==
    \A known \in pool \cup posts, offered \in AllPosts :
        (cmp(known, offered) = 0)
            <=> (known.Body = offered.Body /\ known.User = offered.User)

\* C16: every change of the chain makes it longer; the mining commit keeps
\* the chain as a prefix and adds one block; only a broadcast replaces blocks.
C16_ChainGrows ==
    [][ blockChain' # blockChain =>
          /\ Len(blockChain') > Len(blockChain)
          /\ mining.pc = "commit" /\ mining'.pc # "commit"
                => blockChain' = Append(blockChain, mining.block)
          /\ SubSeq(blockChain', 1, Len(blockChain)) # blockChain
                => Handles("broadcast")
      ]_vars

\* a broadcast replaced the first block: the block mined before on the old
\* first block no longer links to the chain
C16_Witness ==
    /\ req.op = "broadcast"
    /\ CarriesChain(req.body)
    /\ blockChain = ChainIn(req.body)
    /\ Len(blockChain) = 2
    /\ mining.pc = "commit"
    /\ mining.length = 1
    /\ mining.block.Header.PrevHash # HashHeader(blockChain[1].Header)

\* C17: a post leaves the pool only in a step that puts it on the chain.
C17_PoolLeavesToChain ==
    [][ \A p \in pool \ pool' : p \in PostsOf(blockChain') ]_vars

\* C18: in every reachable state every post in the pool and every post on the
\* chain has a signature that verifies against its public key and body.
C18_PostsVerify == \A p \in pool \cup PostsOf(blockChain) : PostVerify(p)

\* posts are in the pool and on the chain
C18_Witness ==
    /\ pool # {}
    /\ PostsOf(blockChain) # {}
    /\ Len(blockChain) = 2

\* the miners are connected through the tracker: no partition, and each has
\* every other miner in its peer list
Connected ==
    /\ ~tracker.partitioned
    /\ \A p \in Ports : nodes[p].peers = Ports \ {p}

\* nothing is left to mine or to pass on: the pools are empty and the miners
\* hold one and the same chain
Settled ==
    /\ \A p \in Ports : nodes[p].pool = {}
    /\ \A p, q \in Ports : nodes[p].blockChain = nodes[q].blockChain

\* the post occurs exactly once on the chain
OnChainOnce(chain, post) ==
    LET all == ChainPosts(chain)
    IN  Cardinality({ k \in 1..Len(all) : all[k] = post }) = 1

\* C19: in a network of connected miners every post accepted by /write at
\* some miner comes to be on the chain read from any miner, exactly once: when
\* nothing is left to mine or to pass on, every accepted post is exactly once
\* on the chain of every miner.
C19_WrittenPostsOnChains ==
    Connected /\ Settled =>
        \A post \in written, p \in Ports : OnChainOnce(nodes[p].blockChain, post)

\* C20: after a partition in which the chains diverged is healed, all miners
\* come to hold one and the same chain, with every post written before,
\* during and after the partition on it: once the miners hold one chain again
\* and the pools are empty, no accepted post is missing from that chain.
C20_HealedChainKeepsPosts ==
    healed /\ Connected /\ Settled =>
        \A post \in written, p \in Ports :
            \E i \in 1..Len(nodes[p].blockChain) :
                \E j \in 1..Len(nodes[p].blockChain[i].Posts) :
                    nodes[p].blockChain[i].Posts[j] = post

\* no two accepted posts have one author and one timestamp
NoTwins == \A a, b \in written : cmp(a, b) = 0 => a = b

\* C19 for posts that differ in author or timestamp
WrittenPostsOnChainsWithoutTwins == NoTwins => C19_WrittenPostsOnChains

\* C20 for posts that differ in author or timestamp
HealedChainKeepsPostsWithoutTwins == NoTwins => C20_HealedChainKeepsPosts

----------------------------------------------------------------------------
(* C21..C30 *)

\* C28: when the chain length at the mining commit differs from the length
\* noted before the proof-of-work, the commit changes neither chain, index
\* nor pool, and mine() returns without a broadcast.
C28_StaleBlockDiscarded ==
    [][ ( Commits /\ Len(blockChain) # mining.length )
        => ( UNCHANGED minerState /\ mining' = [pc |-> "idle"] )
      ]_vars

\* a block with posts waits for its commit while a broadcast has made the
\* chain longer than noted; the posts of the block are still in the pool
C28_Witness ==
    /\ mining.pc = "commit"
    /\ Len(blockChain) > mining.length
    /\ mining.block.Posts # <<>>
    /\ BlockPosts(mining.block) \subseteq pool

\* C29: a block that mine() appends carries as previous-hash the hash of the
\* header of the block that is the tip at the commit (zero on an empty chain);
\* while the chain has the length noted at the snapshot, its tip is the tip
\* the block was linked to.
C29_NeverExtendsStaleChain ==
    /\ [][ ( Commits /\ blockChain' # blockChain )
            => ( /\ blockChain' = Append(blockChain, mining.block)
                 /\ mining.block.Header.PrevHash = TipHash(blockChain) )
          ]_vars
    /\ []( ( mining.pc = "commit" /\ Len(blockChain) = mining.length )
            => mining.block.Header.PrevHash = TipHash(blockChain) )

\* a block was appended to a chain of one block after a write was handled
\* between snapshot and commit
C29_Witness ==
    /\ mining.pc = "broadcast"
    /\ Len(blockChain) = 2
    /\ blockChain[2].Header.PrevHash = HashHeader(blockChain[1].Header)
    /\ blockChain[2].Posts = <<>>
    /\ pool # {}

\* C30: a mining commit that finds the noted chain length appends the mined
\* block, moves its posts, which are all in the pool and none in the index,
\* from the pool to the index, and starts a call with the whole new chain for
\* every peer.
C30_CommitMovesAndBroadcasts ==
    [][ ( Commits /\ Len(blockChain) = mining.length )
        => LET moved == BlockPosts(mining.block)
           IN  /\ blockChain' = Append(blockChain, mining.block)
               /\ moved \subseteq pool
               /\ moved \cap posts = {}
               /\ pool' = pool \ moved
               /\ posts' = posts \cup moved
               /\ mining'.pc = "broadcast"
               /\ { m.to : m \in mining'.sent } = Peers
               /\ \A m \in mining'.sent :
                      CarriesChain(m.body) /\ ChainIn(m.body) = blockChain'
      ]_vars

\* a block with a post was committed on a block and is on its way to the
\* peers, while a post written after the snapshot waits in the pool
C30_Witness ==
    /\ mining.pc = "broadcast"
    /\ mining.sent # {}
    /\ Len(blockChain) = 2
    /\ blockChain[2].Posts # <<>>
    /\ pool # {}


\* the tracker gives a response in this step
Answers == answer = NoAnswer /\ answer' # NoAnswer

\* the ports of a response
Reported(response) == { response.ports[i] : i \in DOMAIN response.ports }

\* the ports that are live
Live == DOMAIN miners

\* C21: register(port) answers 200 with the ports that are live after it,
\* each once and the port of the caller among them, and the live ports
\* after it are the ones before it and the port of the caller: a port that
\* was live has one entry, as after a single register.
C21_RegisterReturnsLiveSet ==
    [][Answers /\ answer'.op = "register" =>
          /\ answer'.status = StatusOK
          /\ Reported(answer') = Live'
          /\ Len(answer'.ports) = Cardinality(Live')
          /\ answer'.port \in Reported(answer')
          /\ Live' = Live \cup {answer'.port}]_vars

\* a register of a port that is live, with another port live as well
C21_Witness ==
    /\ answer # NoAnswer
    /\ answer.op = "register"
    /\ Len(timers[answer.port]) = 2
    /\ timers[answer.port][1] = "stopped"
    /\ Cardinality(Live) = 2

\* C22: an entry leaves the live ports only in the step in which the callback
\* of the timer of its last register runs; the callback of a timer that a
\* later register has replaced leaves the entry in place.
C22_OnlyLastTimerRemoves ==
    [][\A port \in Live \ Live' :
          /\ timers[port][miners[port]] = "fired"
          /\ timers'[port][miners[port]] = "done"]_vars

\* a port that has stopped registering while its entry is live
Lapsed(port) == port \notin renewing /\ port \in Live

\* C23: a port that registers no more leaves the live ports and stays out,
\* no response given after that names it, and the step that removes a port
\* removes no other port, so the ports that registered later are reported.
C23_LapsedPortExpires ==
    /\ \A port \in TrackerPorts : Lapsed(port) ~> port \notin Live
    /\ [][\A port \in TrackerPorts :
            port \notin renewing /\ port \notin Live =>
               /\ port \notin Live'
               /\ (Answers => port \notin Reported(answer'))]_vars
    /\ [][\A port \in Live \ Live' :
            /\ Live' = Live \ {port}
            /\ \E i \in DOMAIN timers[port] :
                  timers[port][i] = "fired" /\ timers'[port][i] = "done"]_vars

\* a port has lapsed and is gone while the other port is reported
C23_Witness ==
    /\ answer # NoAnswer
    /\ answer.status = StatusOK
    /\ \E port \in TrackerPorts :
          /\ port \notin renewing
          /\ port \notin Live
          /\ \E i \in DOMAIN timers[port] : timers[port][i] = "done"
          /\ Reported(answer) = TrackerPorts \ {port}

\* C24: get_miners answers 404 when no port is live and only then, and 200
\* with the live ports, each once, when there is one; the live ports and the
\* timers are as before.
C24_GetMinersReadsLiveSet ==
    [][Answers /\ answer'.op = "get_miners" =>
          /\ answer'.status \in {StatusOK, StatusNotFound}
          /\ answer'.status = StatusNotFound <=> Live = {}
          /\ answer'.status = StatusOK =>
                /\ Reported(answer') = Live
                /\ Len(answer'.ports) = Cardinality(Live)
          /\ UNCHANGED <<miners, timers>>]_vars

\* get_miners has answered 404 after the only live port expired
C24_Witness ==
    /\ answer # NoAnswer
    /\ answer.op = "get_miners"
    /\ answer.status = StatusNotFound
    /\ \E port \in TrackerPorts : "done" \in { timers[port][i] : i \in DOMAIN timers[port] }


\* the routine is inside mine()
InMiningPass == routine.pc \in {"mine", "commit"}

\* C25: a Shutdown that has begun returns; the routine receives the quit
\* signal at its select only, never inside a mining pass, and stops both
\* timers before it acknowledges; once Shutdown has the acknowledgement the
\* routine is over: no register, gossip or mining step follows, and chain,
\* index and timers stay as they are.
C25_ShutdownTerminates ==
    /\ caller.pc = "sending" ~> caller.pc = "done"
    /\ [][quit = "shutdown" /\ quit' # "shutdown" =>
             /\ ~InMiningPass
             /\ routine.pc = "select"
             /\ routine'.pc = "stopHeartbeat"]_vars
    /\ [](quit = "acknowledgement" \/ caller.pc = "done" =>
             heartbeatTimer = "stopped" /\ syncTimer = "stopped")
    /\ [](caller.pc = "done" => routine.pc = "done")
    /\ [][caller.pc = "done" =>
             UNCHANGED <<routine, blockChain, posts, heartbeatTimer, syncTimer>>]_vars

\* Shutdown has returned from a miner that had mined a block and still has
\* a post in its pool
C25_Witness ==
    /\ caller.pc = "done"
    /\ routine.pc = "done"
    /\ blockChain # <<>>
    /\ pool # {}


\* C26: a post whose body is the body that was signed, with the key of the
\* stated user, verifies; a post whose content or timestamp differs from the
\* signed body, under the signature made for that body, does not.
C26_SignatureBindsBody ==
    /\ verdict.known
    /\ verdict.post.Signature = original.post.Signature
    /\ verdict.post.User = original.post.User
    =>
        /\ verdict.post.Body = original.post.Body => verdict.ok
        /\ verdict.post.Body.Content # original.post.Body.Content => ~verdict.ok
        /\ verdict.post.Body.Timestamp # original.post.Body.Timestamp => ~verdict.ok

\* a post failed to verify after a change of its timestamp alone
C26_Witness ==
    /\ verdict.known
    /\ ~verdict.ok
    /\ verdict.post.Body.Content = original.post.Body.Content
    /\ verdict.post.Body.Timestamp # original.post.Body.Timestamp


\* the elements of a list
Elements(list) == { list[i] : i \in DOMAIN list }

\* the tracker has answered 200 with a list of ports
Reports == listing.reached /\ listing.status = StatusOK /\ listing.decodes

\* C27: GetRandomMiners gives the tracker's list when it has at most RWCount
\* ports, and RWCount different ports of the list when it has more; it gives
\* an error when the tracker is not reached or answers another status than
\* 200.
C27_RandomMiners ==
    selected.known =>
        /\ Reports /\ Len(listing.ports) <= RWCount =>
              ~selected.err /\ selected.ports = listing.ports
        /\ Reports /\ Len(listing.ports) > RWCount =>
              /\ ~selected.err
              /\ Len(selected.ports) = RWCount
              /\ Cardinality(Elements(selected.ports)) = RWCount
              /\ Elements(selected.ports) \subseteq Elements(listing.ports)
        /\ ~listing.reached \/ listing.status # StatusOK => selected.err

\* three ports selected from a list of more, not the first three of the list
C27_Witness ==
    /\ selected.known
    /\ ~selected.err
    /\ Len(listing.ports) > RWCount
    /\ selected.ports # SubSeq(listing.ports, 1, RWCount)


----------------------------------------------------------------------------
(* C31..C40 *)

\* the step of mine() in which the nonces are tried
TriesNonces == threads["mine"].pc = "tip" /\ threads'["mine"].pc = "snapped"

\* C31: the mining pass does not hold the state lock while it tries nonces,
\* so that a handler that needs the exclusive lock can take it during the
\* proof of work.
C31_LockFreeDuringPoW ==
    [][TriesNonces => "mine" \notin lock.readers /\ CanLock]_vars

\* what the code does instead: from RLock to RUnlock, the proof of work
\* included, no goroutine can take the exclusive lock
PoWExcludesWriters ==
    threads["mine"].pc \in {"length", "posts", "tip", "snapped"} =>
        "mine" \in lock.readers /\ ~CanLock /\ lock.writer = "none"


\* the posts the miner knows: its pool and its index of the posts on the chain
Known == pool \cup posts

\* C39: no operation drops a post the miner knows: a post that is in the
\* pool or in the index before a step is in the pool or in the index after
\* it.
C39_KnownPostsKept == [][\A p \in Known : p \in Known']_vars

\* a post that is dropped has the timestamp and the key of a post that is
\* known afterwards
KnownPostsKeptUpToTwins ==
    [][\A p \in Known \ Known' : \E q \in Known' : cmp(q, p) = 0]_vars


\* the order of the pool: by timestamp, then by the bytes of the public key
Before(p, q) ==
    \/ p.Body.Timestamp < q.Body.Timestamp
    \/ /\ p.Body.Timestamp = q.Body.Timestamp
       /\ BytesCompare(PublicKeyToBytes(p.User), PublicKeyToBytes(q.User)) < 0

\* a mining pass notes its candidate in this step
Snapshots == mining.pc = "idle" /\ mining'.pc = "commit"

\* C33: the candidate of a mining pass holds min(PostsPerBlock, |pool|) posts
\* of the pool, in the order of the pool, and every post of the pool it
\* leaves out comes after them; with an empty pool it has no posts, and it
\* is committed like any other.
C33_CandidateIsPoolPrefix ==
    /\ [][Snapshots =>
            LET chosen == mining'.block.Posts
            IN  /\ Len(chosen) = Min(PostsPerBlock, Cardinality(pool))
                /\ \A i \in DOMAIN chosen : chosen[i] \in pool
                /\ \A i, j \in DOMAIN chosen : i < j => Before(chosen[i], chosen[j])
                /\ \A q \in pool \ BlockPosts(mining'.block) :
                      \A i \in DOMAIN chosen : Before(chosen[i], q)]_vars
    /\ [][Commits /\ Len(blockChain) = mining.length /\ mining.block.Posts = <<>> =>
            blockChain' = Append(blockChain, mining.block)]_vars

\* after a block without posts, mined on an empty pool, a candidate of two
\* posts is taken from a pool of more
C33_Witness ==
    /\ Len(blockChain) = 1
    /\ blockChain[1].Posts = <<>>
    /\ mining.pc = "commit"
    /\ Len(mining.block.Posts) = PostsPerBlock
    /\ Cardinality(pool) > PostsPerBlock


\* C34: a mining pass that has begun ends; it tries at most MiningIterations
\* nonces; and a pass in which no nonce met the target changes neither
\* chain, index nor pool.
C34_PassEnds ==
    /\ pass.pc # "idle" ~> pass.pc = "idle"
    /\ [](pass.pc # "idle" => pass.tried <= MiningIterations)
    /\ [][pass.pc # "idle" /\ ~pass.success => UNCHANGED minerState]_vars

\* a pass has tried MiningIterations nonces in vain, with a post in the pool
C34_Witness ==
    /\ pass.pc = "out"
    /\ ~pass.success
    /\ pass.tried = MiningIterations
    /\ pool # {}

\* bit k of a digest, counted from the most significant bit of its first byte
Bit(hash, k) == (hash.lead[(k \div 8) + 1] \div (2 ^ (7 - (k % 8)))) % 2

\* the first n bits of a digest are zero
FirstBitsZero(hash, n) == \A k \in 0..(n - 1) : Bit(hash, k) = 0

\* C35: the check of the mining loop accepts a digest exactly when its first
\* TARGET bits are zero, and a block that left the loop with success passes
\* Block.Verify.
C35_DifficultyCheck ==
    /\ pass.pc # "idle" /\ pass.tried > 0 =>
          (pass.met <=> FirstBitsZero(pass.hash, TARGET))
    /\ pass.pc = "out" /\ pass.success => BlockVerify(pass.block)

\* a digest with zero bits and a set bit in its second byte met the target,
\* and the block holds posts
C35_Witness ==
    /\ pass.pc = "out"
    /\ pass.success
    /\ pass.hash.lead[2] # 0
    /\ pass.block.Posts # <<>>


\* the routine registers in this step: at its start or on a heartbeat
Registers == heartbeatTimer # "active" /\ heartbeatTimer' = "active"

\* C36: after every register of the routine the peer list is the list of the
\* tracker without the miner's own port, in the tracker's order, and empty
\* when the register failed; the peer list changes in no other step, and a
\* heartbeat after a failed register registers like any other.
C36_PeersWithoutSelf ==
    /\ [][Registers =>
            LET response == peerList'.heard
                new      == peerList'.peers
            IN  /\ response \in RegisterResponses
                /\ OwnPort \notin Elements(new)
                /\ Failed(response) => new = <<>>
                /\ ~Failed(response) =>
                      new = SelectSeq(response.ports, LAMBDA q : q # OwnPort)]_vars
    /\ [][peerList' # peerList => Registers]_vars

\* a heartbeat after a failed register has brought two peers
C36_Witness ==
    /\ peerList.retry
    /\ Len(peerList.peers) = 2
    /\ peerList.heard.ports[2] = OwnPort

\* the sync timer is read in this step
Fires == syncTimer = "expired" /\ syncTimer' # "expired"

\* the calls without their state
Sent(set) == { <<c.to, c.body>> : c \in set }

\* C37: when the sync timer fires with a pool that is not empty, one call of
\* /sync goes to every peer of the peer list and to no one else, each with
\* all posts of the pool as it is then; with an empty pool no call is made.
\* No call is made in any other step, and the end of a call, whatever it is,
\* changes neither chain, index, pool nor peer list.
C37_GossipSendsPool ==
    /\ [][Fires =>
            /\ pool = {} => calls' = {}
            /\ pool # {} =>
                  /\ { c.to : c \in calls' } = Elements(peerList.peers)
                  /\ Cardinality(calls') = Cardinality(Elements(peerList.peers))
                  /\ \A c \in calls' :
                        /\ c.state = "sent"
                        /\ c.body.json
                        /\ Elements(c.body.val.Posts)
                              = { PostEncodeBase64(p) : p \in pool }
                        /\ Len(c.body.val.Posts) = Cardinality(pool)
            /\ UNCHANGED minerState]_vars
    /\ [][~Fires => Sent(calls') = Sent(calls)]_vars
    /\ [][calls' # calls /\ ~Fires => UNCHANGED <<minerState, peerList>>]_vars

\* a gossip of two posts to two peers: one call was rejected, one failed
C37_Witness ==
    /\ Cardinality(calls) = 2
    /\ { c.state : c \in calls } = {"rejected", "error"}
    /\ \A c \in calls : Len(c.body.val.Posts) = 2

\* the fetched chains that are non-empty and valid
GoodChains ==
    { i \in DOMAIN fetched.chains :
        fetched.chains[i] # <<>> /\ ChainValid(fetched.chains[i]) }

\* a list in the order of (timestamp, public key) in which no post is twice
SortedPosts(list) ==
    \A i, j \in 1..Len(list) : i < j => cmp(list[i], list[j]) <= 0 /\ list[i] # list[j]

\* ReadPosts returned an error exactly when no fetched chain is non-empty and
\* valid, and otherwise the sorted posts of a longest such chain
ReturnsLongestValid ==
    /\ readPosts.err <=> GoodChains = {}
    /\ ~readPosts.err =>
          \E i \in GoodChains :
             /\ \A j \in GoodChains : Len(fetched.chains[j]) <= Len(fetched.chains[i])
             /\ Elements(readPosts.posts) = PostsOf(fetched.chains[i])
             /\ SortedPosts(readPosts.posts)

\* C38: ReadPosts returns the posts of the longest fetched chain that is
\* non-empty and valid, sorted by (timestamp, public key) without duplicates,
\* and an error when no fetched chain is non-empty and valid
C38_ReadPostsLongestValid == readPosts.known => ReturnsLongestValid

\* a chain in which no two different posts have one author and one timestamp
TwinFree(chain) ==
    LET all == ChainPosts(chain)
    IN  \A k, l \in 1..Len(all) : cmp(all[k], all[l]) = 0 => all[k] = all[l]

\* the same for reads in which no fetched chain holds two different posts of
\* one author with one timestamp
ReadPostsLongestValidWithoutTwins ==
    readPosts.known /\ (\A i \in DOMAIN fetched.chains : TwinFree(fetched.chains[i]))
        => ReturnsLongestValid

\* a read that took the posts of the longer of two valid chains, with a
\* chain that fails a check fetched first
ReadTookLongest ==
    /\ readPosts.known /\ ~readPosts.err
    /\ Len(fetched.chains) = 2
    /\ Len(fetched.chains[2]) = 2 /\ Len(fetched.chains[1]) = 2
    /\ ~ChainValid(fetched.chains[1])
    /\ Len(readPosts.posts) = 2

\* the routine of a miner holds the miner's lock, in either mode
Holds(m) == "routine" \in locks[m].readers \/ locks[m].writer = "routine"

\* the routine of a miner has sent a call that has not returned
CallOpen(m) == routines[m].pc \in {"register", "wait", "failed"}

\* C32: the routine of a miner holds the lock in no mode while a call to the
\* tracker or to a peer is open; it holds the lock while it copies the pool
\* and while it commits, and a call to a peer is sent only in a step that
\* follows the release
C32_NoCallUnderLock ==
    /\ [](\A m \in Callers :
            /\ CallOpen(m) => ~Holds(m)
            /\ routines[m].pc \in {"copy", "pow", "tried"} => "routine" \in locks[m].readers
            /\ routines[m].pc = "committing" => locks[m].writer = "routine")
    /\ [][\A m \in Callers :
            ~CallOpen(m) /\ CallOpen(m)' =>
                /\ ~Holds(m)
                /\ routines[m].pc \in {"select", "send"}
                /\ UNCHANGED locks]_vars

\* a broadcast of one miner is open and being served under the lock of the
\* other, whose routine has a register call open
C32_Witness ==
    /\ routines[3001] = [pc |-> "wait", op |-> "broadcast"]
    /\ serving[3002] = [pc |-> "locked", op |-> "broadcast"]
    /\ routines[3002].pc = "register"

\* C40: every call a miner has sent to its peer returns, and every handler
\* that waits for the lock of its miner gets it and answers
C40_CallsReturn ==
    \A m \in Callers :
        /\ (routines[m].pc = "wait") ~> (routines[m].pc = "select")
        /\ (serving[m].pc = "waiting") ~> (serving[m].pc = "idle")

\* each miner waits for the answer of the other: the handler of one waits for
\* the lock its routine holds over the last nonce of a mining pass, the
\* handler of the other holds its lock
C40_Witness ==
    /\ routines[3001].pc = "wait" /\ routines[3002].pc = "pow"
    /\ routines[3002].i = MiningIterations - 1
    /\ serving[3002].pc = "waiting"

====
